---- MODULE Spec2Model ----
(***************************************************************************)
(* Calendar availability of reinisvaravs.site: the POST                    *)
(* /get_calendar_availability handler (src/routes/waWebhook.js) and the    *)
(* pipeline it calls (src/gCalendar.js): free/busy fetch, hourly slot      *)
(* generation, merging of consecutive slots. Further the API key check of  *)
(* the server (src/server.js) and the WhatsApp webhook POST /wa/webhook    *)
(* (src/routes/waWebhook.js), under the specification ServerSpec.          *)
(*                                                                         *)
(* Representation.                                                         *)
(*  - An instant (a JS Date) is its number of whole seconds since the Unix *)
(*    epoch. Every step of the code adds whole minutes or hours, so the    *)
(*    seconds of an instant stand for everything below the minute.         *)
(*  - A JS string is the sequence of its characters.                       *)
(*  - A JS value of a request body is a record [t, n, s]: t its type,      *)
(*    n the number (as the integer 2*x, exact for integers and halves),    *)
(*    s the characters of a string.                                        *)
(***************************************************************************)
EXTENDS Integers, Sequences, FiniteSets, TLC

VARIABLES
    creds,        \* process.env.GOOGLE_CREDENTIALS: "ok", "missing", "badjson", "nofields"
    pc,           \* where the request is: "idle", "core", "awaiting", "returned", "responded"
    caller,       \* who called formattedCalendarAvailability: "none", "handler", "direct"
    req,          \* the HTTP request being handled
    args,         \* the arguments of formattedCalendarAvailability
    now,          \* new Date() of formattedCalendarAvailability (0: not taken yet)
    window,       \* [timeMin, timeMax] handed to checkCalendarAvailability
    queries,      \* free/busy queries issued by the current invocation
    reply,        \* what calendar.freebusy.query answered
    result,       \* what checkCalendarAvailability returned
    hourlySlots,  \* generateHourlySlots' output
    intervals,    \* groupSlotsIntoIntervals' output
    outcome,      \* how formattedCalendarAvailability ended
    http,         \* the handler's response
    processEnv,   \* process.env: API_SECRET, APP_SECRET and VERIFY_TOKEN
    spc,          \* where the server's request is: "idle", "handler", "loop", "fetching",
                  \* "sending", "booking", "querying", "done"
    sreq,         \* the request at the API key check or at POST /wa/webhook
    responses,    \* the statuses of the responses sent for the request, in order
    handlerRan,   \* the route handler behind the API key check was entered
    visited,      \* change values the webhook's loop has visited
    inFlight,     \* the value whose forward to n8n is awaited
    forwards,     \* the forwards to n8n started for the request: "started", "ok", "failed"
    detail,       \* what the request's response carries and what the request handed on
    uploadFiles,  \* the directory uploads/: for each file name, whose upload it holds (0: no file)
    convertedFiles, \* the directory converted/: for each path, whose upload it was converted from
    conv,         \* the POST /convert-audio requests
    clock         \* Date.now()

calendarVars == <<creds, pc, caller, req, args, now, window, queries, reply, result,
                  hourlySlots, intervals, outcome, http>>

serverVars == <<processEnv, spc, sreq, responses, handlerRan, visited, inFlight, forwards>>

endpointVars == <<detail>>

convertVars == <<uploadFiles, convertedFiles, conv, clock>>

vars == <<creds, pc, caller, req, args, now, window, queries, reply, result,
          hourlySlots, intervals, outcome, http,
          processEnv, spc, sreq, responses, handlerRan, visited, inFlight, forwards,
          detail,
          uploadFiles, convertedFiles, conv, clock>>

----------------------------------------------------------------------------
(* Strings of the source, as character sequences.                          *)

MsgNoEntryPrefix ==
    <<"C", "a", "l", "e", "n", "d", "a", "r", " ", "n", "o", "t", " ", "f", "o", "u", "n", "d", " ", "o", "r", " ", "a", "c", "c", "e", "s", "s", " ", "d", "e", "n", "i", "e", "d", ":", " ">>

MsgNotFoundPrefix ==
    <<"C", "a", "l", "e", "n", "d", "a", "r", " ", "n", "o", "t", " ", "f", "o", "u", "n", "d", ":", " ">>

MsgForbiddenPrefix ==
    <<"A", "c", "c", "e", "s", "s", " ", "d", "e", "n", "i", "e", "d", " ", "t", "o", " ", "c", "a", "l", "e", "n", "d", "a", "r", ":", " ">>

MsgBadRequestPrefix ==
    <<"I", "n", "v", "a", "l", "i", "d", " ", "c", "a", "l", "e", "n", "d", "a", "r", " ", "I", "D", ":", " ">>

MsgGenericPrefix ==
    <<"C", "a", "n", "n", "o", "t", " ", "a", "c", "c", "e", "s", "s", " ", "c", "a", "l", "e", "n", "d", "a", "r", " ">>

MsgGenericSep ==
    <<":", " ">>

MsgUnknownError ==
    <<"U", "n", "k", "n", "o", "w", "n", " ", "e", "r", "r", "o", "r">>

MsgInvalidTimeValue ==
    <<"I", "n", "v", "a", "l", "i", "d", " ", "t", "i", "m", "e", " ", "v", "a", "l", "u", "e">>

MsgInvalidTimeZonePrefix ==
    <<"I", "n", "v", "a", "l", "i", "d", " ", "t", "i", "m", "e", " ", "z", "o", "n", "e", " ", "s", "p", "e", "c", "i", "f", "i", "e", "d", ":", " ">>

MsgForEachTypeError ==
    <<"C", "a", "n", "n", "o", "t", " ", "r", "e", "a", "d", " ", "p", "r", "o", "p", "e", "r", "t", "i", "e", "s", " ", "o", "f", " ", "u", "n", "d", "e", "f", "i", "n", "e", "d", " ", "(", "r", "e", "a", "d", "i", "n", "g", " ", "'", "f", "o", "r", "E", "a", "c", "h", "'", ")">>

MsgInvalidGrant ==
    <<"i", "n", "v", "a", "l", "i", "d", "_", "g", "r", "a", "n", "t">>

ReasonNotFound ==
    <<"n", "o", "t", "F", "o", "u", "n", "d">>

ReasonForbidden ==
    <<"f", "o", "r", "b", "i", "d", "d", "e", "n">>

ReasonBadRequest ==
    <<"b", "a", "d", "R", "e", "q", "u", "e", "s", "t">>

ReasonInternalError ==
    <<"i", "n", "t", "e", "r", "n", "a", "l", "E", "r", "r", "o", "r">>

DomainGlobal ==
    <<"g", "l", "o", "b", "a", "l">>

DomainCalendar ==
    <<"c", "a", "l", "e", "n", "d", "a", "r">>

EmailValid ==
    <<"a", "@", "b", ".", "c">>

EmailNoAt ==
    <<"a", "b", ".", "c">>

TzUTC ==
    <<"U", "T", "C">>

TzRiga ==
    <<"E", "u", "r", "o", "p", "e", "/", "R", "i", "g", "a">>

TzKolkata ==
    <<"A", "s", "i", "a", "/", "K", "o", "l", "k", "a", "t", "a">>

TzBad ==
    <<"M", "a", "r", "s", "/", "P", "h", "o", "b", "o", "s">>

PatClientEmail ==
    <<"c", "l", "i", "e", "n", "t", "_", "e", "m", "a", "i", "l">>

PatForEach ==
    <<"f", "o", "r", "E", "a", "c", "h">>

PatNotFoundUpper ==
    <<"N", "o", "t", " ", "F", "o", "u", "n", "d">>

PatNotFoundLower ==
    <<"n", "o", "t", " ", "f", "o", "u", "n", "d">>

PatForbidden ==
    <<"F", "o", "r", "b", "i", "d", "d", "e", "n">>

PatAccess ==
    <<"a", "c", "c", "e", "s", "s">>

----------------------------------------------------------------------------
(* JS values and the conversions the handler applies to them.              *)

JsUndef == [t |-> "undef", n |-> 0, s |-> <<>>]

JsNaN == [t |-> "nan", n |-> 0, s |-> <<>>]

JsNum(twice) == [t |-> "num", n |-> twice, s |-> <<>>]

JsInt(k) == JsNum(2 * k)

JsStr(chars) == [t |-> "str", n |-> 0, s |-> chars]

Digits == <<"0", "1", "2", "3", "4", "5", "6", "7", "8", "9">>

IsDigit(c) == \E i \in 1..Len(Digits) : Digits[i] = c

DigitValue(c) == (CHOOSE i \in 1..Len(Digits) : Digits[i] = c) - 1

RECURSIVE DecimalValue(_)
DecimalValue(chars) ==
    IF chars = <<>> THEN 0
    ELSE 10 * DecimalValue(SubSeq(chars, 1, Len(chars) - 1))
         + DigitValue(chars[Len(chars)])

\* Number(string): "" is 0, a string of decimal digits is its value, any other
\* string of the requests modelled here (a word) is NaN.
StringToNumber(chars) ==
    IF \A i \in 1..Len(chars) : IsDigit(chars[i])
    THEN JsInt(DecimalValue(chars))
    ELSE JsNaN

Number(v) ==
    CASE v.t = "num" -> v
      [] v.t = "nan" -> v
      [] v.t = "undef" -> JsNaN
      [] v.t = "null" -> JsInt(0)
      [] v.t = "str" -> StringToNumber(v.s)

\* Math.min / Math.max of two numbers: NaN when either is NaN.
MathMin(a, b) ==
    IF a.t = "nan" \/ b.t = "nan" THEN JsNaN
    ELSE IF a.n <= b.n THEN a ELSE b

MathMax(a, b) ==
    IF a.t = "nan" \/ b.t = "nan" THEN JsNaN
    ELSE IF a.n >= b.n THEN a ELSE b

\* a >= b on numbers: false when either is NaN.
JsGreaterEq(a, b) == a.t = "num" /\ b.t = "num" /\ a.n >= b.n

\* A destructuring default applies to undefined only.
Default(v, d) == IF v.t = "undef" THEN d ELSE v

\* !v for the values a body field can hold here.
Falsy(v) ==
    \/ v.t \in {"undef", "null", "nan"}
    \/ v.t = "num" /\ v.n = 0
    \/ v.t = "str" /\ v.s = <<>>

\* String(v) for a string or undefined.
ToChars(v) == IF v.t = "str" THEN v.s ELSE <<"u", "n", "d", "e", "f", "i", "n", "e", "d">>

\* parseInt(x, 10) of a number: its integer part; NaN stays NaN.
parseInt(v) ==
    IF v.t = "num"
    THEN JsInt(IF v.n >= 0 THEN v.n \div 2 ELSE -((-v.n) \div 2))
    ELSE IF v.t = "str" THEN StringToNumber(v.s)
    ELSE JsNaN

\* String.prototype.includes
Includes(chars, pat) ==
    \E i \in 0..(Len(chars) - Len(pat)) : SubSeq(chars, i + 1, i + Len(pat)) = pat

\* /^[^\s@]+@[^\s@]+\.[^\s@]+$/.test(chars)
Plain(chars, lo, hi) ==
    /\ lo <= hi
    /\ \A k \in lo..hi : chars[k] \notin {"@", " "}

emailRegexTest(chars) ==
    \E i \in 1..Len(chars) : \E j \in 1..Len(chars) :
        /\ chars[i] = "@"
        /\ chars[j] = "."
        /\ Plain(chars, 1, i - 1)
        /\ Plain(chars, i + 1, j - 1)
        /\ Plain(chars, j + 1, Len(chars))

----------------------------------------------------------------------------
(* Time and time zones.                                                    *)

MINUTE == 60

HOUR == 60 * MINUTE

DAY == 24 * HOUR

\* The zones Intl knows, of those the requests modelled here name.
ValidZones == {TzUTC, TzRiga, TzKolkata}

IsValidTimeZone(tz) == tz \in ValidZones

\* Minutes east of UTC in January 2024, where the modelled instants lie.
ZoneOffsetMinutes(tz) ==
    CASE tz = TzUTC -> 0
      [] tz = TzRiga -> 120
      [] tz = TzKolkata -> 330

\* Year, month and day of the proleptic Gregorian calendar, from the day number
\* since 1970-01-01.
CivilFromDays(dayNumber) ==
    LET z == dayNumber + 719468
        era == z \div 146097
        doe == z - era * 146097
        yoe == (doe - doe \div 1460 + doe \div 36524 - doe \div 146096) \div 365
        doy == doe - (365 * yoe + yoe \div 4 - yoe \div 100)
        mp == (5 * doy + 2) \div 153
        d == doy - (153 * mp + 2) \div 5 + 1
        m == IF mp < 10 THEN mp + 3 ELSE mp - 9
    IN  [year |-> yoe + era * 400 + (IF m <= 2 THEN 1 ELSE 0), month |-> m, day |-> d]

\* Intl.DateTimeFormat("en-GB", {timeZone, ...}).formatToParts(date), as numbers;
\* weekday 0 is Sunday. Only called with a zone Intl knows.
getZonedParts(date, timeZone) ==
    LET local == date + ZoneOffsetMinutes(timeZone) * MINUTE
        dayNumber == local \div DAY
        civil == CivilFromDays(dayNumber)
    IN  [year |-> civil.year,
         month |-> civil.month,
         day |-> civil.day,
         hour |-> (local % DAY) \div HOUR,
         minute |-> (local % HOUR) \div MINUTE,
         weekday |-> (dayNumber + 4) % 7]

----------------------------------------------------------------------------
(* checkCalendarAvailability, after the free/busy query has answered.      *)

\* A faulty variant: only the first entry of the list is looked at.
hasGlobalReasonFirst(errorDetails, reason) ==
    /\ errorDetails # <<>>
    /\ errorDetails[1].domain = DomainGlobal
    /\ errorDetails[1].reason = reason

hasGlobalReason(errorDetails, reason) ==
    \E i \in 1..Len(errorDetails) :
        errorDetails[i].domain = DomainGlobal /\ errorDetails[i].reason = reason

\* The message of the Error thrown for an errors field.
accessErrorMessage(errorDetails, calendarId) ==
    IF hasGlobalReason(errorDetails, ReasonNotFound)
    THEN MsgNotFoundPrefix \o calendarId
    ELSE IF hasGlobalReason(errorDetails, ReasonForbidden)
    THEN MsgForbiddenPrefix \o calendarId
    ELSE IF hasGlobalReason(errorDetails, ReasonBadRequest)
    THEN MsgBadRequestPrefix \o calendarId
    ELSE MsgGenericPrefix \o calendarId \o MsgGenericSep
         \o (IF errorDetails # <<>> /\ errorDetails[1].reason # <<>>
             THEN errorDetails[1].reason
             ELSE MsgUnknownError)

\* if (currentTime < busyStart): there is a gap before this busy period.
gapBefore(currentTime, busyStart) == currentTime < busyStart

\* A faulty variant: the cursor is left at the start of the busy period.
afterBusyAtStart(busy) == busy.start

\* currentTime = busyEnd
afterBusy(busy) == busy.end

\* The for loop over busyTimes: the free slots pushed, and currentTime after it.
RECURSIVE scanBusy(_, _, _)
scanBusy(busyTimes, currentTime, freeSlots) ==
    IF busyTimes = <<>> THEN [free |-> freeSlots, currentTime |-> currentTime]
    ELSE LET busy == Head(busyTimes)
         IN  scanBusy(Tail(busyTimes), afterBusy(busy),
                      IF gapBefore(currentTime, busy.start)
                      THEN Append(freeSlots, [start |-> currentTime, end |-> busy.start])
                      ELSE freeSlots)

freeSlotsOf(busyTimes, timeMin, timeMax) ==
    LET scanned == scanBusy(busyTimes, timeMin, <<>>)
    IN  IF scanned.currentTime < timeMax
        THEN Append(scanned.free, [start |-> scanned.currentTime, end |-> timeMax])
        ELSE scanned.free

\* A faulty variant: only a non-empty errors list counts.
hasAccessErrorsNonEmpty(answer) == answer.hasErrors /\ answer.errors # <<>>

\* if (response.data.calendars[calendarId].errors): an errors field, even an
\* empty list, is truthy.
hasAccessErrors(answer) == answer.hasErrors

NoResult == [error |-> JsUndef, hasFree |-> FALSE, busy |-> <<>>, free |-> <<>>]

\* What checkCalendarAvailability returns for an answer of the query: the catch
\* turns every throw into {error: error.message}.
checkCalendarAvailability(timeMin, timeMax, calendarId, answer) ==
    IF answer.kind = "throw"
    THEN [NoResult EXCEPT !.error = JsStr(answer.msg)]
    ELSE IF answer.kind = "noentry"
    THEN [NoResult EXCEPT !.error = JsStr(MsgNoEntryPrefix \o calendarId)]
    ELSE IF hasAccessErrors(answer)
    THEN [NoResult EXCEPT !.error = JsStr(accessErrorMessage(answer.errors, calendarId))]
    ELSE [error |-> JsUndef,
          hasFree |-> TRUE,
          busy |-> answer.busy,
          free |-> freeSlotsOf(answer.busy, timeMin, timeMax)]

----------------------------------------------------------------------------
(* generateHourlySlots and groupSlotsIntoIntervals.                        *)

\* A faulty variant: the cursor is not aligned.
alignToHourSkipped(current, timeZone) == current

\* A faulty variant: the cursor is moved back to the top of its hour.
alignToHourBackward(current, timeZone) ==
    current - getZonedParts(current, timeZone).minute * MINUTE

\* while (parts.minute !== 0) current += 60 s
RECURSIVE alignToHour(_, _)
alignToHour(current, timeZone) ==
    IF getZonedParts(current, timeZone).minute # 0
    THEN alignToHour(current + MINUTE, timeZone)
    ELSE current

\* A faulty variant: a slot is taken as soon as it starts inside the interval.
fitsIntervalPartly(current, endDate) == current < endDate

\* while (current + 1 h <= endDate)
fitsInterval(current, endDate) == current + HOUR <= endDate

isWeekday(startParts) == startParts.weekday >= 1 /\ startParts.weekday <= 5

\* A faulty variant: the hour work_end_hour itself starts a slot.
withinHoursInclusive(startParts, WORK_START_HOUR, WORK_END_HOUR) ==
    /\ JsGreaterEq(JsInt(startParts.hour), WORK_START_HOUR)
    /\ WORK_END_HOUR.t = "num"
    /\ 2 * startParts.hour <= WORK_END_HOUR.n

\* startParts.hour >= WORK_START_HOUR && startParts.hour < WORK_END_HOUR
withinHours(startParts, WORK_START_HOUR, WORK_END_HOUR) ==
    /\ JsGreaterEq(JsInt(startParts.hour), WORK_START_HOUR)
    /\ WORK_END_HOUR.t = "num"
    /\ 2 * startParts.hour < WORK_END_HOUR.n

\* The while loop over one free interval. The cursor of its k-th pass is
\* current + k hours; the loop makes a pass as long as the cursor fits, and a
\* pass pushes a slot when its start is on a weekday within the hours.
slotLoop(current, endDate, timeZone, WORK_START_HOUR, WORK_END_HOUR) ==
    LET cursor(k) == current + k * HOUR
        most == IF endDate > current THEN (endDate - current) \div HOUR + 1 ELSE 0
        passes == Cardinality({k \in 0..(most - 1) :
                                 \A j \in 0..k : fitsInterval(cursor(j), endDate)})
        pushes(slot) ==
            LET startParts == getZonedParts(slot.start, timeZone)
            IN  /\ isWeekday(startParts)
                /\ withinHours(startParts, WORK_START_HOUR, WORK_END_HOUR)
    IN  SelectSeq([k \in 1..passes |-> [start |-> cursor(k - 1), end |-> cursor(k - 1) + HOUR]],
                  pushes)

\* The body of slots.forEach for one free interval.
slotsOfInterval(interval, timeZone, work_start_hour, work_end_hour) ==
    slotLoop(alignToHour(interval.start, timeZone), interval.end, timeZone,
             parseInt(work_start_hour), parseInt(work_end_hour))

RECURSIVE generateHourlySlots(_, _, _, _)

\* A faulty variant: the slots of a free interval are put in front of those of
\* the intervals before it.
generateHourlySlotsReversed(slots, timeZone, work_start_hour, work_end_hour) ==
    IF slots = <<>> THEN <<>>
    ELSE generateHourlySlots(Tail(slots), timeZone, work_start_hour, work_end_hour)
         \o slotsOfInterval(Head(slots), timeZone, work_start_hour, work_end_hour)

generateHourlySlots(slots, timeZone, work_start_hour, work_end_hour) ==
    IF slots = <<>> THEN <<>>
    ELSE slotsOfInterval(Head(slots), timeZone, work_start_hour, work_end_hour)
         \o generateHourlySlots(Tail(slots), timeZone, work_start_hour, work_end_hour)

\* A faulty variant: the slot is compared with the start of the running interval.
isConsecutiveWithStart(currentSlot, currentInterval) ==
    currentSlot.start = currentInterval.start

\* currentSlot.start.getTime() === previousEnd.getTime()
isConsecutive(currentSlot, currentInterval) == currentSlot.start = currentInterval.end

RECURSIVE groupLoop(_, _, _)
groupLoop(slots, currentInterval, done) ==
    IF slots = <<>> THEN Append(done, currentInterval)
    ELSE LET currentSlot == Head(slots)
         IN  IF isConsecutive(currentSlot, currentInterval)
             THEN groupLoop(Tail(slots),
                            [currentInterval EXCEPT !.end = currentSlot.end], done)
             ELSE groupLoop(Tail(slots),
                            [start |-> currentSlot.start, end |-> currentSlot.end],
                            Append(done, currentInterval))

\* A faulty variant: the loop starts at the first slot instead of the second.
groupSlotsFromFirst(slots) ==
    IF slots = <<>> THEN <<>>
    ELSE groupLoop(slots, [start |-> slots[1].start, end |-> slots[1].end], <<>>)

groupSlotsIntoIntervals(slots) ==
    IF slots = <<>> THEN <<>>
    ELSE groupLoop(Tail(slots), [start |-> slots[1].start, end |-> slots[1].end], <<>>)

----------------------------------------------------------------------------
(* Bounds and the inputs drawn within them.                                *)

\* Busy intervals in one answer of the free/busy query.
MaxBusy == 2

\* Entries in one errors list of the free/busy query.
MaxErrors == 2

\* A window longer than this many days is answered busy from some modelled
\* instant to its end.
HorizonDays == 7

Jan1 == 19723 * DAY   \* 2024-01-01T00:00:00Z, a Monday

\* new Date() of a request: Monday 00:00:00, Monday 10:15:30, Friday 16:20:00,
\* Saturday 12:00:00 (UTC).
NowChoices ==
    { Jan1,
      Jan1 + 10 * HOUR + 15 * MINUTE + 30,
      Jan1 + 4 * DAY + 16 * HOUR + 20 * MINUTE,
      Jan1 + 5 * DAY + 12 * HOUR }

\* Instants at which a busy interval of the calendar starts or ends, on the UTC
\* day of t and the next: 09:30:00, 10:30:00, 13:00:20, next day 10:00:00.
CalendarPoints(t) ==
    LET midnight == t - (t % DAY)
    IN  { midnight + 9 * HOUR + 30 * MINUTE,
          midnight + 10 * HOUR + 30 * MINUTE,
          midnight + 13 * HOUR + 20,
          midnight + DAY + 10 * HOUR }

RECURSIVE SortedSeq(_)
SortedSeq(S) ==
    IF S = {} THEN <<>>
    ELSE LET m == CHOOSE x \in S : \A y \in S : x <= y
         IN  <<m>> \o SortedSeq(S \ {m})

\* Consecutive pairs of a sorted sequence of instants, as intervals.
RECURSIVE Paired(_)
Paired(points) ==
    IF Len(points) < 2 THEN <<>>
    ELSE <<[start |-> points[1], end |-> points[2]] >>
         \o Paired(SubSeq(points, 3, Len(points)))

\* The busy lists the calendar service answers for a window: chronological,
\* pairwise disjoint, clipped to the window.
BusyLists(timeMin, timeMax) ==
    LET points == {timeMin, timeMax}
                  \cup {p \in CalendarPoints(timeMin) : timeMin < p /\ p < timeMax}
    IN  { Paired(SortedSeq(S)) :
            S \in { T \in SUBSET points :
                      /\ Cardinality(T) % 2 = 0
                      /\ Cardinality(T) <= 2 * MaxBusy
                      /\ (timeMax - timeMin > HorizonDays * DAY => timeMax \in T) } }

ErrorEntries ==
    { [domain |-> DomainGlobal, reason |-> ReasonNotFound],
      [domain |-> DomainGlobal, reason |-> ReasonForbidden],
      [domain |-> DomainGlobal, reason |-> ReasonBadRequest],
      [domain |-> DomainGlobal, reason |-> ReasonInternalError],
      [domain |-> DomainCalendar, reason |-> ReasonNotFound] }

ErrorLists == UNION { [1..k -> ErrorEntries] : k \in 0..MaxErrors }

NoAnswer == [kind |-> "none", msg |-> <<>>, hasErrors |-> FALSE, errors |-> <<>>, busy |-> <<>>]

\* What calendar.freebusy.query can do: throw (an Error with a message, possibly
\* the empty one), answer without an entry for the calendar, answer an entry with
\* an errors field, or answer an entry with a busy list.
Answers(timeMin, timeMax) ==
    { [NoAnswer EXCEPT !.kind = "throw", !.msg = m] : m \in {<<>>, MsgInvalidGrant} }
    \cup { [NoAnswer EXCEPT !.kind = "noentry"] }
    \cup { [NoAnswer EXCEPT !.kind = "entry", !.hasErrors = TRUE, !.errors = e] :
             e \in ErrorLists }
    \cup { [NoAnswer EXCEPT !.kind = "entry", !.busy = b] : b \in BusyLists(timeMin, timeMax) }

Bodies ==
    [ google_calendar_email : {JsUndef, JsStr(EmailNoAt), JsStr(EmailValid)},
      timezone : {JsUndef, JsStr(TzUTC), JsStr(TzKolkata), JsStr(TzBad)},
      days : {JsUndef, JsInt(0), JsInt(1), JsNum(5), JsInt(400), JsStr(<<"a", "b", "c">>)},
      work_start_hour : {JsUndef, JsNum(19), JsInt(18), JsStr(<<"x">>)},
      work_end_hour : {JsUndef, JsInt(8), JsInt(30)},
      slot_duration_minutes : {JsUndef} ]

DefaultBody ==
    [ google_calendar_email |-> JsStr(EmailValid), timezone |-> JsUndef, days |-> JsUndef,
      work_start_hour |-> JsUndef, work_end_hour |-> JsUndef,
      slot_duration_minutes |-> JsUndef ]

\* Bodies that ask for a slot duration: 30 minutes, and 600 minutes (above the
\* handler's upper bound).
DurationBodies ==
    { [DefaultBody EXCEPT !.slot_duration_minutes = d] : d \in {JsInt(30), JsInt(600)} }

Requests ==
    { [hasBody |-> FALSE, apiKey |-> TRUE, body |-> DefaultBody],
      [hasBody |-> TRUE, apiKey |-> FALSE, body |-> DefaultBody] }
    \cup { [hasBody |-> TRUE, apiKey |-> TRUE, body |-> b] : b \in Bodies \cup DurationBodies }

NoArgs ==
    [ timeZone |-> JsUndef, days |-> JsUndef, google_calendar_email |-> <<>>,
      work_start_hour |-> JsUndef, work_end_hour |-> JsUndef ]

\* Arguments of a call of the exported formattedCalendarAvailability that does
\* not come from the handler.
DirectArgs ==
    { [NoArgs EXCEPT !.timeZone = tz, !.days = JsInt(1),
                     !.google_calendar_email = EmailValid,
                     !.work_start_hour = JsStr(<<"9">>),
                     !.work_end_hour = JsStr(<<"1", "7">>)] :
        tz \in {JsUndef, JsStr(TzBad)} }

----------------------------------------------------------------------------
(* The formatting of the merged intervals and their grouping by date.      *)

\* toLocaleDateString("en-US", {weekday: "long"}).toLowerCase(), by weekday 0..6
WeekdayNames ==
    << <<"s", "u", "n", "d", "a", "y">>,
       <<"m", "o", "n", "d", "a", "y">>,
       <<"t", "u", "e", "s", "d", "a", "y">>,
       <<"w", "e", "d", "n", "e", "s", "d", "a", "y">>,
       <<"t", "h", "u", "r", "s", "d", "a", "y">>,
       <<"f", "r", "i", "d", "a", "y">>,
       <<"s", "a", "t", "u", "r", "d", "a", "y">> >>

\* toLocaleDateString("en-US", {month: "long"}), by month 1..12
MonthNames ==
    << <<"J", "a", "n", "u", "a", "r", "y">>,
       <<"F", "e", "b", "r", "u", "a", "r", "y">>,
       <<"M", "a", "r", "c", "h">>,
       <<"A", "p", "r", "i", "l">>,
       <<"M", "a", "y">>,
       <<"J", "u", "n", "e">>,
       <<"J", "u", "l", "y">>,
       <<"A", "u", "g", "u", "s", "t">>,
       <<"S", "e", "p", "t", "e", "m", "b", "e", "r">>,
       <<"O", "c", "t", "o", "b", "e", "r">>,
       <<"N", "o", "v", "e", "m", "b", "e", "r">>,
       <<"D", "e", "c", "e", "m", "b", "e", "r">> >>

\* A number below 100 in two digits ("2-digit").
TwoDigits(k) == <<Digits[((k \div 10) % 10) + 1], Digits[(k % 10) + 1]>>

\* A year in four digits ("numeric").
FourDigits(k) == TwoDigits(k \div 100) \o TwoDigits(k % 100)

\* Intl.DateTimeFormat("en-GB", {hour: "2-digit", minute: "2-digit", hour12: false})
formatTime(date, timeZone) ==
    LET parts == getZonedParts(date, timeZone)
    IN  TwoDigits(parts.hour) \o <<":">> \o TwoDigits(parts.minute)

\* One element of intervalObjects.
intervalObject(interval, timeZone) ==
    LET parts == getZonedParts(interval.start, timeZone)
    IN  [day |-> WeekdayNames[parts.weekday + 1],
         month |-> MonthNames[parts.month],
         date |-> TwoDigits(parts.day),
         dateStr |-> FourDigits(parts.year) \o <<"-">> \o TwoDigits(parts.month)
                     \o <<"-">> \o TwoDigits(parts.day),
         interval |-> formatTime(interval.start, timeZone) \o <<"-">>
                      \o formatTime(interval.end, timeZone) \o <<" ">> \o timeZone]

\* A faulty variant: the string is put in front of the strings of its date.
pushIntervalInFront(strings, interval) == <<interval>> \o strings

\* grouped[intervalObj.dateStr].intervals.push(intervalObj.interval)
pushInterval(strings, interval) == Append(strings, interval)

\* The object grouped, as the sequence of its entries in insertion order: an
\* entry is created at the first interval of its date, and every interval is
\* pushed to the entry of its date.
RECURSIVE groupByDate(_, _)
groupByDate(intervalObjects, grouped) ==
    IF intervalObjects = <<>> THEN grouped
    ELSE LET o == Head(intervalObjects)
             at == {i \in 1..Len(grouped) : grouped[i].dateStr = o.dateStr}
         IN  IF at = {}
             THEN groupByDate(Tail(intervalObjects),
                              Append(grouped, [dateStr |-> o.dateStr, day |-> o.day,
                                               month |-> o.month, date |-> o.date,
                                               intervals |-> pushInterval(<<>>, o.interval)]))
             ELSE LET i == CHOOSE j \in at : TRUE
                  IN  groupByDate(Tail(intervalObjects),
                                  [grouped EXCEPT ![i].intervals = pushInterval(@, o.interval)])

formatIntervals(merged, timeZone) ==
    groupByDate([i \in 1..Len(merged) |-> intervalObject(merged[i], timeZone)], <<>>)

----------------------------------------------------------------------------
(* formattedCalendarAvailability.                                          *)

NoOutcome == [kind |-> "none", msg |-> <<>>, array |-> FALSE, grouped |-> <<>>]

\* return []
ReturnedEmptyArray == [kind |-> "return", msg |-> <<>>, array |-> TRUE, grouped |-> <<>>]

\* return grouped
Returned(grouped) == [kind |-> "return", msg |-> <<>>, array |-> FALSE, grouped |-> grouped]

Thrown(message) == [kind |-> "throw", msg |-> message, array |-> FALSE, grouped |-> <<>>]

\* timeZone || "Europe/Riga"
zoneOrDefault(timeZone) == IF Falsy(timeZone) THEN TzRiga ELSE timeZone.s

\* if (result.error) throw new Error(result.error)
fetchFailed(res) == ~Falsy(res.error)

Ended(res, slots, merged, out) ==
    [result |-> res, hourlySlots |-> slots, intervals |-> merged, outcome |-> out]

\* formattedCalendarAvailability from the answer of the query on: the check of
\* result.error, generateHourlySlots (whose first getZonedParts throws a
\* RangeError for a zone Intl does not know, and whose forEach throws a
\* TypeError when result.free is undefined), groupSlotsIntoIntervals, the
\* formatting and the grouping by date. (intervals is never empty when
\* hourlySlots is not, so the second return [] is not taken.)
coreAfterQuery(a, timeMin, timeMax, answer) ==
    LET res == checkCalendarAvailability(timeMin, timeMax, a.google_calendar_email, answer)
        tz == zoneOrDefault(a.timeZone)
        slots == generateHourlySlots(res.free, tz, a.work_start_hour, a.work_end_hour)
    IN  IF fetchFailed(res)
        THEN Ended(res, <<>>, <<>>, Thrown(ToChars(res.error)))
        ELSE IF ~res.hasFree
        THEN Ended(res, <<>>, <<>>, Thrown(MsgForEachTypeError))
        ELSE IF res.free # <<>> /\ ~IsValidTimeZone(tz)
        THEN Ended(res, <<>>, <<>>, Thrown(MsgInvalidTimeZonePrefix \o tz))
        ELSE IF slots = <<>>
        THEN Ended(res, slots, <<>>, ReturnedEmptyArray)
        ELSE Ended(res, slots, groupSlotsIntoIntervals(slots),
                   Returned(formatIntervals(groupSlotsIntoIntervals(slots), tz)))

----------------------------------------------------------------------------
(* POST /get_calendar_availability.                                        *)

NoHttp == [status |-> 0, error |-> "", slot_duration_minutes |-> JsUndef]

Http(status, error) == [NoHttp EXCEPT !.status = status, !.error = error]

\* Math.max(1, Math.min(365, Number(days)))
validatedDays(days) == MathMax(JsInt(1), MathMin(JsInt(365), Number(days)))

\* Math.max(0, Math.min(23, Number(hour)))
validatedHour(hour) == MathMax(JsInt(0), MathMin(JsInt(23), Number(hour)))

\* Math.max(15, Math.min(480, Number(slot_duration_minutes)))
validatedSlotDuration(slot_duration_minutes) ==
    MathMax(JsInt(15), MathMin(JsInt(480), Number(slot_duration_minutes)))

\* The 200 response: of its params, the slot duration the handler validated.
okResponse(r) ==
    [Http(200, "") EXCEPT !.slot_duration_minutes =
        validatedSlotDuration(Default(r.body.slot_duration_minutes, JsInt(60)))]

\* A faulty variant: the handler does not check the zone.
timezoneAcceptedUnchecked(timezone) == TRUE

\* try { Intl.DateTimeFormat(undefined, { timeZone: timezone }) } does not throw
timezoneAccepted(timezone) == IsValidTimeZone(ToChars(timezone))

\* What the handler does with a request up to the call of the core: the response
\* it sends without calling it (status > 0), or the arguments of the call.
validate(r, env) ==
    LET b == r.body
        email == b.google_calendar_email
        timezone == Default(b.timezone, JsStr(TzRiga))
        days == Default(b.days, JsInt(7))
        work_start_hour == Default(b.work_start_hour, JsInt(9))
        work_end_hour == Default(b.work_end_hour, JsInt(17))
        reject(status, error) == [http |-> Http(status, error), args |-> NoArgs]
    IN  IF ~r.hasBody THEN reject(400, "Request body is required and must be an object")
        ELSE IF ~r.apiKey THEN reject(401, "Missing x-api-key header")
        ELSE IF Falsy(email) THEN reject(400, "google_calendar_email is required in request body")
        ELSE IF env = "missing" THEN reject(500, "Service account credentials not configured")
        ELSE IF ~emailRegexTest(ToChars(email))
        THEN reject(400, "google_calendar_email must be a valid email format")
        ELSE IF env = "badjson" THEN reject(500, "Invalid service account credentials format")
        ELSE IF env = "nofields" THEN reject(400, "Invalid service account key structure")
        ELSE IF JsGreaterEq(validatedHour(work_start_hour), validatedHour(work_end_hour))
        THEN reject(400, "work_start_hour must be less than work_end_hour")
        ELSE IF ~timezoneAccepted(timezone) THEN reject(400, "Invalid timezone")
        ELSE [http |-> NoHttp,
              args |-> [timeZone |-> timezone,
                        days |-> validatedDays(days),
                        google_calendar_email |-> ToChars(email),
                        work_start_hour |-> validatedHour(work_start_hour),
                        work_end_hour |-> validatedHour(work_end_hour)]]

\* The catch (calendarError) of the handler: the status by the error message.
calendarErrorResponse(message) ==
    IF Includes(message, PatClientEmail)
    THEN Http(400, "Invalid service account credentials")
    ELSE IF Includes(message, PatForEach)
    THEN Http(400, "Calendar access error")
    ELSE IF Includes(message, PatNotFoundUpper) \/ Includes(message, PatNotFoundLower)
    THEN Http(404, "Calendar not found")
    ELSE IF Includes(message, PatForbidden) \/ Includes(message, PatAccess)
    THEN Http(403, "Access denied")
    ELSE Http(400, "Calendar error")

----------------------------------------------------------------------------
(* The configuration of the server and its state between two requests.     *)

\* process.env.API_SECRET, when set
ApiSecret == <<"k", "e", "y", "1">>

\* process.env.APP_SECRET, when set
AppSecret == <<"m", "e", "t", "a">>

\* process.env.VERIFY_TOKEN, when set
VerifyToken == <<"t", "o", "k">>

\* req.query without the parameters the handlers read.
NoQuery == [mode |-> JsUndef, verify_token |-> JsUndef, challenge |-> JsUndef,
            limit |-> JsUndef]

\* The body of POST /send_event_email, of its fields the recipients: attendees,
\* and monitoring_emails when given.
NoEmailBody == [attendees |-> <<>>, hasMonitoring |-> FALSE, monitoring_emails |-> <<>>]

\* The body of POST /book_calendar_event, of its fields the title and the two
\* times (hours of one day); the other fields are given and valid.
NoBookBody == [hasTitle |-> FALSE, start_time |-> 0, end_time |-> 0]

NoServerRequest ==
    [kind |-> "none", route |-> "", apiKey |-> JsUndef, sigHeader |-> JsUndef,
     rawBody |-> <<>>, hasEntry |-> FALSE, query |-> NoQuery, email |-> NoEmailBody,
     book |-> NoBookBody]

\* No error of an upstream call.
NoUpstreamError == [failed |-> FALSE, code |-> 0, message |-> <<>>]

\* Nothing sent in a response body, nothing handed on and nothing got back.
NoDetail ==
    [sent |-> JsUndef,
     to |-> <<>>, bcc |-> <<>>,
     sent_to |-> <<>>, sent_count |-> JsUndef,
     hasMonitoringEmails |-> FALSE, monitoring_emails |-> <<>>,
     total_emails_sent |-> JsUndef,
     upstream |-> NoUpstreamError,
     dbLimit |-> JsUndef]

NoValue == [hasValue |-> FALSE, hasStatuses |-> FALSE, hasMessages |-> FALSE, messages |-> <<>>]

\* No request is being handled.
ServerIdle ==
    /\ spc = "idle"
    /\ sreq = NoServerRequest
    /\ responses = <<>>
    /\ handlerRan = FALSE
    /\ visited = 0
    /\ inFlight = NoValue
    /\ forwards = <<>>
    /\ detail = NoDetail

----------------------------------------------------------------------------
(* POST /convert-audio: the files and the requests.                        *)

\* Requests that can be in flight together.
ConvRequests == {1, 2}

\* file.originalname of an upload.
FileNames == {"a.ogg", "b.ogg"}

\* req.query.format: none, two of the supported formats, an unsupported one.
FormatChoices == {"", "mp3", "wav", "exe"}

supportedFormats == {"flac", "m4a", "mp3", "mp4", "mpeg", "mpga", "oga", "ogg", "wav", "webm"}

\* Milliseconds Date.now() advances while the requests are handled.
MaxClock == 1

\* path.join(convertedDir, `${Date.now()}.${outputFormat}`)
OutputPath(ms, outputFormat) == <<ms, outputFormat>>

NoConv ==
    [pc |-> "none", inputPath |-> "", outputPath |-> <<>>, read |-> 0, streamed |-> 0,
     status |-> 0]

\* No file on the disk, no request, the clock at its start.
ConvertIdle ==
    /\ uploadFiles = [name \in FileNames |-> 0]
    /\ convertedFiles = [path \in (0..MaxClock) \X supportedFormats |-> 0]
    /\ conv = [i \in ConvRequests |-> NoConv]
    /\ clock = 0

----------------------------------------------------------------------------
(* The state machine.                                                      *)

NoRequest == [hasBody |-> FALSE, apiKey |-> FALSE, body |-> DefaultBody]

NoWindow == [timeMin |-> 0, timeMax |-> 0]

Init ==
    /\ creds \in {"ok", "missing", "badjson", "nofields"}
    /\ pc = "idle"
    /\ caller = "none"
    /\ req = NoRequest
    /\ args = NoArgs
    /\ now = 0
    /\ window = NoWindow
    /\ queries = 0
    /\ reply = NoAnswer
    /\ result = NoResult
    /\ hourlySlots = <<>>
    /\ intervals = <<>>
    /\ outcome = NoOutcome
    /\ http = NoHttp
    /\ processEnv = [API_SECRET |-> JsStr(ApiSecret), APP_SECRET |-> JsStr(AppSecret),
                     VERIFY_TOKEN |-> JsStr(VerifyToken)]
    /\ ServerIdle
    /\ ConvertIdle

\* A request arrives: the handler validates it and either answers or calls
\* formattedCalendarAvailability.
HandlerStart(r) ==
    /\ pc = "idle"
    /\ LET v == validate(r, creds)
       IN  /\ req' = r
           /\ http' = v.http
           /\ args' = v.args
           /\ pc' = IF v.http.status > 0 THEN "responded" ELSE "core"
           /\ caller' = IF v.http.status > 0 THEN "none" ELSE "handler"
    /\ UNCHANGED <<creds, now, window, queries, reply, result, hourlySlots, intervals,
                   outcome>>
    /\ UNCHANGED <<serverVars, endpointVars, convertVars>>

\* Another module calls the exported formattedCalendarAvailability.
DirectCall(a) ==
    /\ pc = "idle"
    /\ args' = a
    /\ caller' = "direct"
    /\ pc' = "core"
    /\ UNCHANGED <<creds, req, now, window, queries, reply, result, hourlySlots,
                   intervals, outcome, http>>
    /\ UNCHANGED <<serverVars, endpointVars, convertVars>>

\* formattedCalendarAvailability up to its await: now, the window's end (an
\* Invalid Date for days = NaN, whose toISOString throws), the query.
CoreStart(t) ==
    /\ pc = "core"
    /\ now' = t
    /\ LET days == Number(args.days)
       IN  IF days.t = "nan"
           THEN /\ outcome' = Thrown(MsgInvalidTimeValue)
                /\ pc' = "returned"
                /\ UNCHANGED <<window, queries>>
           ELSE /\ window' = [timeMin |-> t, timeMax |-> t + (days.n * DAY) \div 2]
                /\ queries' = queries + 1
                /\ pc' = "awaiting"
                /\ UNCHANGED outcome
    /\ UNCHANGED <<creds, caller, req, args, reply, result, hourlySlots, intervals, http>>
    /\ UNCHANGED <<serverVars, endpointVars, convertVars>>

\* The query answers, and formattedCalendarAvailability runs to its end.
QueryAnswers(answer) ==
    /\ pc = "awaiting"
    /\ reply' = answer
    /\ LET e == coreAfterQuery(args, window.timeMin, window.timeMax, answer)
       IN  /\ result' = e.result
           /\ hourlySlots' = e.hourlySlots
           /\ intervals' = e.intervals
           /\ outcome' = e.outcome
    /\ pc' = "returned"
    /\ UNCHANGED <<creds, caller, req, args, now, window, queries, http>>
    /\ UNCHANGED <<serverVars, endpointVars, convertVars>>

\* The handler answers with what formattedCalendarAvailability returned or threw.
HandlerFinish ==
    /\ pc = "returned"
    /\ caller = "handler"
    /\ http' = IF outcome.kind = "throw"
               THEN calendarErrorResponse(outcome.msg)
               ELSE okResponse(req)
    /\ pc' = "responded"
    /\ UNCHANGED <<creds, caller, req, args, now, window, queries, reply, result,
                   hourlySlots, intervals, outcome>>
    /\ UNCHANGED <<serverVars, endpointVars, convertVars>>

\* The request is over; nothing of it is kept.
NextRequest ==
    /\ \/ pc = "responded"
       \/ pc = "returned" /\ caller = "direct"
    /\ pc' = "idle"
    /\ caller' = "none"
    /\ req' = NoRequest
    /\ args' = NoArgs
    /\ now' = 0
    /\ window' = NoWindow
    /\ queries' = 0
    /\ reply' = NoAnswer
    /\ result' = NoResult
    /\ hourlySlots' = <<>>
    /\ intervals' = <<>>
    /\ outcome' = NoOutcome
    /\ http' = NoHttp
    /\ UNCHANGED creds
    /\ UNCHANGED <<serverVars, endpointVars, convertVars>>

Next ==
    \/ \E r \in Requests : HandlerStart(r)
    \/ \E a \in DirectArgs : DirectCall(a)
    \/ \E t \in NowChoices : CoreStart(t)
    \/ \E answer \in Answers(window.timeMin, window.timeMax) : QueryAnswers(answer)
    \/ HandlerFinish
    \/ NextRequest

Spec == Init /\ [][Next]_vars

----------------------------------------------------------------------------
(* Properties.                                                             *)

Fetched == pc = "returned" /\ result.hasFree

Zone == zoneOrDefault(args.timeZone)

Computed == pc = "returned" /\ outcome.kind = "return"

Range(seq) == {seq[i] : i \in 1..Len(seq)}

RECURSIVE SortedByStart(_)
SortedByStart(S) ==
    IF S = {} THEN <<>>
    ELSE LET m == CHOOSE x \in S : \A y \in S : x.start <= y.start
         IN  <<m>> \o SortedByStart(S \ {m})

\* The intervals of seq, in this order, tile [lo, hi]: each is non-empty, the
\* first starts at lo, each starts where the one before ends, the last ends at hi.
Tiles(seq, lo, hi) ==
    /\ seq # <<>>
    /\ seq[1].start = lo
    /\ seq[Len(seq)].end = hi
    /\ \A i \in 1..Len(seq) : seq[i].start < seq[i].end
    /\ \A i \in 1..(Len(seq) - 1) : seq[i].end = seq[i + 1].start

Contains(outer, inner) == outer.start <= inner.start /\ inner.end <= outer.end

\* C1: the free list of checkCalendarAvailability and the busy list partition
\* the window: no interval occurs twice, and in chronological order the busy and
\* free intervals tile [timeMin, timeMax] without gap or overlap; with no busy
\* interval the free list is the single interval [timeMin, timeMax].
C1_FreeBusyPartition ==
    Fetched =>
        /\ Cardinality(Range(result.busy) \cup Range(result.free))
             = Len(result.busy) + Len(result.free)
        /\ Tiles(SortedByStart(Range(result.busy) \cup Range(result.free)),
                 window.timeMin, window.timeMax)
        /\ (result.busy = <<>> =>
              result.free = <<[start |-> window.timeMin, end |-> window.timeMax]>>)

C1_Witness ==
    /\ Fetched
    /\ Len(result.busy) = 2
    /\ Len(result.free) = 3

LocalSecond(t, timeZone) == (t + ZoneOffsetMinutes(timeZone) * MINUTE) % MINUTE

\* C2: every slot of generateHourlySlots starts on a top of the hour of the
\* target zone: local minute 0 and nothing below the minute.
C2_SlotsStartOnTheHour ==
    Computed =>
        \A k \in 1..Len(hourlySlots) :
            /\ getZonedParts(hourlySlots[k].start, Zone).minute = 0
            /\ LocalSecond(hourlySlots[k].start, Zone) = 0

\* C3: every slot lies inside the free interval it was generated from, and the
\* slots of the pipeline are those of its free intervals: none extends past the
\* end of its interval.
C3_SlotsInsideInterval ==
    Computed =>
        /\ \A i \in 1..Len(result.free) :
             \A slot \in Range(slotsOfInterval(result.free[i], Zone,
                                               args.work_start_hour, args.work_end_hour)) :
                 /\ Contains(result.free[i], slot)
                 /\ slot \in Range(hourlySlots)
        /\ \A k \in 1..Len(hourlySlots) :
             \E i \in 1..Len(result.free) : Contains(result.free[i], hourlySlots[k])

\* A free interval ends less than one slot after its last slot, inside the
\* working hours: the rest of the interval was dropped.
C3_Witness ==
    /\ Computed
    /\ \E i \in 1..Len(result.free) : \E k \in 1..Len(hourlySlots) :
         /\ Contains(result.free[i], hourlySlots[k])
         /\ hourlySlots[k].end < result.free[i].end
         /\ result.free[i].end < hourlySlots[k].end + HOUR
         /\ LET parts == getZonedParts(hourlySlots[k].end, Zone)
            IN  /\ isWeekday(parts)
                /\ withinHours(parts, parseInt(args.work_start_hour),
                               parseInt(args.work_end_hour))

\* C4: every slot starts on Monday to Friday of the target zone, at a local hour
\* h with work_start_hour <= h < work_end_hour, the hours being those the
\* computation was called with.
C4_SlotsWithinWorkingHours ==
    Computed =>
        \A k \in 1..Len(hourlySlots) :
            LET parts == getZonedParts(hourlySlots[k].start, Zone)
            IN  /\ parts.weekday \in 1..5
                /\ Number(args.work_start_hour).t = "num"
                /\ Number(args.work_end_hour).t = "num"
                /\ Number(args.work_start_hour).n <= 2 * parts.hour
                /\ 2 * parts.hour < Number(args.work_end_hour).n

\* C5: no merged interval ends where the next one starts.
C5_MergedAreMaximal ==
    Computed =>
        \A i \in 1..(Len(intervals) - 1) : intervals[i].end # intervals[i + 1].start

C5_Witness ==
    /\ Computed
    /\ Len(intervals) >= 2
    /\ \E i \in 1..Len(intervals) : intervals[i].end - intervals[i].start >= 2 * HOUR

Answered == pc = "returned" /\ queries = 1

\* C7: a free list is returned only for an answer that holds the calendar's
\* entry without an errors field; an answer with an errors field (even an empty
\* one) or without the entry gives an error and no free list.
C7_FreeOnlyAfterAccessCheck ==
    Answered =>
        /\ (result.hasFree => reply.kind = "entry" /\ ~reply.hasErrors)
        /\ (reply.kind # "entry" \/ reply.hasErrors =>
              /\ ~result.hasFree
              /\ result.free = <<>>
              /\ result.error.t = "str")

C7_Witness ==
    /\ Answered
    /\ reply.kind = "entry"
    /\ reply.busy = <<>>
    /\ result.hasFree
    /\ result.free = <<[start |-> window.timeMin, end |-> window.timeMax]>>

\* The error kind a message of the fetcher stands for.
KindOfMessage(message, calendarId) ==
    IF message = MsgNotFoundPrefix \o calendarId THEN "NotFound"
    ELSE IF message = MsgForbiddenPrefix \o calendarId THEN "Forbidden"
    ELSE IF message = MsgBadRequestPrefix \o calendarId THEN "InvalidIdentity"
    ELSE IF /\ Len(message) > Len(MsgGenericPrefix \o calendarId \o MsgGenericSep)
            /\ SubSeq(message, 1, Len(MsgGenericPrefix \o calendarId \o MsgGenericSep))
                 = MsgGenericPrefix \o calendarId \o MsgGenericSep
    THEN "UpstreamError"
    ELSE "none"

KindByPriority(reasons) ==
    IF ReasonNotFound \in reasons THEN "NotFound"
    ELSE IF ReasonForbidden \in reasons THEN "Forbidden"
    ELSE IF ReasonBadRequest \in reasons THEN "InvalidIdentity"
    ELSE "UpstreamError"

ReasonsOf(errors) == {errors[i].reason : i \in 1..Len(errors)}

GlobalReasonsOf(errors) ==
    {errors[i].reason : i \in {j \in 1..Len(errors) : errors[j].domain = DomainGlobal}}

Reorderings(seq) ==
    { [i \in 1..Len(seq) |-> seq[f[i]]] :
        f \in {g \in [1..Len(seq) -> 1..Len(seq)] :
                 \A a, b \in 1..Len(seq) : g[a] = g[b] => a = b} }

ErrorsReported == Answered /\ reply.kind = "entry" /\ reply.hasErrors

\* C8 as stated: the kind is chosen by the reasons present in the errors list.
C8_KindByReasons ==
    ErrorsReported =>
        KindOfMessage(ToChars(result.error), args.google_calendar_email)
          = KindByPriority(ReasonsOf(reply.errors))

\* C8, amended: the kind is chosen, in the stated priority, by the reasons of
\* the entries whose domain is "global" (an entry of another domain counts for
\* nothing), and it is the same for every order of the list.
C8_KindByGlobalReasons ==
    ErrorsReported =>
        /\ KindOfMessage(ToChars(result.error), args.google_calendar_email)
             = KindByPriority(GlobalReasonsOf(reply.errors))
        /\ \A other \in Reorderings(reply.errors) :
             KindOfMessage(accessErrorMessage(other, args.google_calendar_email),
                           args.google_calendar_email)
               = KindOfMessage(ToChars(result.error), args.google_calendar_email)

C8_Witness ==
    /\ ErrorsReported
    /\ reply.errors = <<[domain |-> DomainCalendar, reason |-> ReasonNotFound],
                        [domain |-> DomainGlobal, reason |-> ReasonForbidden]>>
    /\ result.error = JsStr(MsgForbiddenPrefix \o args.google_calendar_email)

FetchStageFailed == Answered /\ (reply.kind \in {"throw", "noentry"} \/ reply.hasErrors)

\* C9: after a failed fetch the core throws, with the fetcher's message.
C9_FetchErrorPropagates ==
    FetchStageFailed =>
        /\ outcome.kind = "throw"
        /\ result.error.t = "str"
        /\ outcome.msg = result.error.s

IsWholeIn(v, lo, hi) == v.t = "num" /\ v.n % 2 = 0 /\ 2 * lo <= v.n /\ v.n <= 2 * hi

\* C10: the handler calls the core only with days an integer of 1..365, both
\* hours integers of 0..23 with start < end, a zone Intl knows and an email of
\* the handler's format.
C10_CoreCalledWithValidArguments ==
    caller = "handler" =>
        /\ IsWholeIn(args.days, 1, 365)
        /\ IsWholeIn(args.work_start_hour, 0, 23)
        /\ IsWholeIn(args.work_end_hour, 0, 23)
        /\ args.work_start_hour.n < args.work_end_hour.n
        /\ IsValidTimeZone(Zone)
        /\ emailRegexTest(args.google_calendar_email)

\* The instant t on the wall clock of the zone, in seconds.
LocalInstant(t, timeZone) == t + ZoneOffsetMinutes(timeZone) * MINUTE

\* C11: no slot spans an out-of-hours or weekend boundary: in the target zone
\* the whole slot [start, end) lies on one day, that day is Monday to Friday,
\* and the slot ends no later than work_end_hour:00 of that day.
C11_SlotsEndWithinWorkingDay ==
    Computed =>
        \A k \in 1..Len(hourlySlots) :
            LET slot == hourlySlots[k]
                day == LocalInstant(slot.start, Zone) \div DAY
            IN  /\ (LocalInstant(slot.end, Zone) - 1) \div DAY = day
                /\ getZonedParts(slot.start, Zone).weekday \in 1..5
                /\ Number(args.work_end_hour).t = "num"
                /\ 2 * (LocalInstant(slot.end, Zone) - day * DAY)
                     <= Number(args.work_end_hour).n * HOUR

\* C12: every slot has the slot duration of the request: end - start is the
\* slot_duration_minutes the handler validated (60 minutes when not given).
C12_SlotsHaveRequestedDuration ==
    (Computed /\ caller = "handler") =>
        LET duration == validatedSlotDuration(Default(req.body.slot_duration_minutes,
                                                      JsInt(60)))
        IN  \A k \in 1..Len(hourlySlots) :
                /\ duration.t = "num"
                /\ 2 * (hourlySlots[k].end - hourlySlots[k].start) = duration.n * MINUTE

\* The computation was called with the working hours 9 to 17.
HoursNineToFive ==
    /\ Number(args.work_start_hour) = JsInt(9)
    /\ Number(args.work_end_hour) = JsInt(17)

\* The window is one whole UTC day that is a Monday to Friday.
WindowIsOneWeekday ==
    /\ window.timeMin % DAY = 0
    /\ window.timeMax = window.timeMin + DAY
    /\ getZonedParts(window.timeMin, TzUTC).weekday \in 1..5

NineToFiveUTC ==
    <<"0", "9", ":", "0", "0", "-", "1", "7", ":", "0", "0", " ">> \o TzUTC

\* C13 (scenario A): with no busy interval, a window of one weekday 00:00 to
\* 24:00 UTC, the zone UTC and the hours 9 to 17, there is exactly one merged
\* interval, 09:00 to 17:00 of that day, and exactly one day bucket, whose
\* intervals are the single string "09:00-17:00 UTC".
C13_ScenarioA ==
    (Fetched /\ result.busy = <<>> /\ WindowIsOneWeekday /\ Zone = TzUTC /\ HoursNineToFive) =>
        /\ outcome.kind = "return"
        /\ intervals = <<[start |-> window.timeMin + 9 * HOUR,
                          end |-> window.timeMin + 17 * HOUR]>>
        /\ ~outcome.array
        /\ Len(outcome.grouped) = 1
        /\ outcome.grouped[1].intervals = <<NineToFiveUTC>>

C13_Witness ==
    /\ Fetched /\ result.busy = <<>> /\ WindowIsOneWeekday /\ Zone = TzUTC /\ HoursNineToFive
    /\ Len(hourlySlots) = 8
    /\ Len(outcome.grouped) = 1

\* The weekday of scenario B: the UTC day on which the window starts.
ScenarioDay == window.timeMin - (window.timeMin % DAY)

\* One busy interval, 09:30 to 10:30 of the day.
HalfPastNineBusy(day) ==
    <<[start |-> day + 9 * HOUR + 30 * MINUTE, end |-> day + 10 * HOUR + 30 * MINUTE]>>

ElevenToFiveUTC ==
    <<"1", "1", ":", "0", "0", "-", "1", "7", ":", "0", "0", " ">> \o TzUTC

\* The merged intervals the stages make of a window that is exactly 09:00 to
\* 17:00 of the day, answered with the busy list.
MergedOfWorkingDay(day, busy) ==
    LET res == checkCalendarAvailability(day + 9 * HOUR, day + 17 * HOUR, EmailValid,
                                         [NoAnswer EXCEPT !.kind = "entry", !.busy = busy])
    IN  groupSlotsIntoIntervals(generateHourlySlots(res.free, TzUTC, JsInt(9), JsInt(17)))

\* C14 (scenario B): with the one busy interval 09:30 to 10:30 on a weekday whose
\* hours 09:00 to 17:00 UTC are inside the window, the zone UTC and the hours 9
\* to 17, no slot 09:00-10:00 or 10:00-11:00 of that day is emitted and the only
\* merged interval of the day, and the only string of its bucket, is 11:00 to
\* 17:00; the same holds for the window that is exactly 09:00 to 17:00.
C14_ScenarioB ==
    ( /\ Fetched
      /\ result.busy = HalfPastNineBusy(ScenarioDay)
      /\ getZonedParts(ScenarioDay, TzUTC).weekday \in 1..5
      /\ window.timeMin <= ScenarioDay + 9 * HOUR
      /\ window.timeMax >= ScenarioDay + 17 * HOUR
      /\ Zone = TzUTC
      /\ HoursNineToFive ) =>
        LET elevenToFive == [start |-> ScenarioDay + 11 * HOUR, end |-> ScenarioDay + 17 * HOUR]
        IN  /\ outcome.kind = "return"
            /\ \A k \in 1..Len(hourlySlots) :
                 hourlySlots[k].start \notin {ScenarioDay + 9 * HOUR, ScenarioDay + 10 * HOUR}
            /\ {i \in 1..Len(intervals) : intervals[i].start < ScenarioDay + DAY} = {1}
            /\ intervals[1] = elevenToFive
            /\ outcome.grouped[1].intervals = <<ElevenToFiveUTC>>
            /\ MergedOfWorkingDay(ScenarioDay, result.busy) = <<elevenToFive>>

C14_Witness ==
    /\ Fetched
    /\ result.busy = HalfPastNineBusy(ScenarioDay)
    /\ window.timeMin = ScenarioDay
    /\ Zone = TzUTC
    /\ HoursNineToFive
    /\ Len(hourlySlots) = 6

\* The whole interval [start, end) lies on Saturday and Sunday of the zone.
OnWeekend(interval, timeZone) ==
    /\ getZonedParts(interval.start, timeZone).weekday \in {0, 6}
    /\ getZonedParts(interval.end - 1, timeZone).weekday \in {0, 6}
    /\ interval.end - interval.start <= 2 * DAY

\* C15 (scenario C): when every free interval lies on Saturday or Sunday of the
\* target zone, no slot is emitted and formattedCalendarAvailability returns
\* without error a result with no day bucket that has the shape of a non-empty
\* result: the object grouped, not an array.
C15_WeekendOnlyReturnsEmptyMapping ==
    ( /\ Fetched
      /\ IsValidTimeZone(Zone)
      /\ result.free # <<>>
      /\ \A i \in 1..Len(result.free) : OnWeekend(result.free[i], Zone) ) =>
        /\ hourlySlots = <<>>
        /\ outcome.kind = "return"
        /\ outcome.grouped = <<>>
        /\ ~outcome.array

\* The day of the zone's calendar on which the interval starts, as a day number.
LocalDayOfStart(interval, timeZone) == LocalInstant(interval.start, timeZone) \div DAY

\* The merged intervals that start on the day, in their order.
StartingOn(day, timeZone) ==
    SelectSeq(intervals, LAMBDA interval : LocalDayOfStart(interval, timeZone) = day)

\* C16 (scenario E and bucketing): every merged interval contributes exactly one
\* string to exactly one bucket, the bucket of the ISO date of its start in the
\* target zone, and the strings of a bucket are in the chronological order of
\* their intervals: the buckets have different dates, and the strings of the
\* bucket of a date are those of the merged intervals that start on that date,
\* in order of start.
C16_BucketsByStartDate ==
    (Computed /\ ~outcome.array) =>
        LET grouped == outcome.grouped
            object(i) == intervalObject(intervals[i], Zone)
        IN  /\ \A i \in 1..(Len(intervals) - 1) : intervals[i].start < intervals[i + 1].start
            /\ \A b, c \in 1..Len(grouped) : grouped[b].dateStr = grouped[c].dateStr => b = c
            /\ \A i \in 1..Len(intervals) :
                 \E b \in 1..Len(grouped) :
                    /\ grouped[b].dateStr = object(i).dateStr
                    /\ LET mine == StartingOn(LocalDayOfStart(intervals[i], Zone), Zone)
                       IN  grouped[b].intervals =
                             [j \in 1..Len(mine) |-> intervalObject(mine[j], Zone).interval]
            /\ \A b \in 1..Len(grouped) :
                 \E i \in 1..Len(intervals) : grouped[b].dateStr = object(i).dateStr

\* Two merged intervals of one day, separated by a busy interval, in one bucket.
C16_Witness ==
    /\ Computed
    /\ Len(result.busy) >= 1
    /\ \E b \in 1..Len(outcome.grouped) :
         /\ Len(outcome.grouped[b].intervals) = 2
         /\ outcome.grouped[b].intervals[1] # outcome.grouped[b].intervals[2]

----------------------------------------------------------------------------
(* The server: the API key check in front of /n8n and /api (src/server.js) *)
(* and POST /wa/webhook (src/routes/waWebhook.js).                         *)

\* The environments of a deployment: each secret set or not set.
Environments ==
    [API_SECRET : {JsUndef, JsStr(ApiSecret)}, APP_SECRET : {JsUndef, JsStr(AppSecret)},
     VERIFY_TOKEN : {JsUndef, JsStr(<<>>), JsStr(VerifyToken)}]

\* The x-api-key headers of a request: none, empty, the secret, a proper
\* substring of the secret, the secret followed by one more character, and a
\* string that does not occur in the secret.
ApiKeys ==
    { JsUndef, JsStr(<<>>), JsStr(ApiSecret), JsStr(SubSeq(ApiSecret, 2, 3)),
      JsStr(ApiSecret \o <<"x">>), JsStr(<<"n", "o">>) }

\* app.use("/n8n", apiKeyMiddleware, ...), app.use("/api", apiKeyMiddleware, ...)
GuardedRoutes == {"/n8n", "/api"}

\* What apiKeyMiddleware does: "401", "next", or "throw" (the TypeError of
\* undefined.includes when API_SECRET is not set). API_SECRET is the string of
\* the environment, so includes is the substring test of a string.
apiKeyMiddleware(apiKey, API_SECRET) ==
    IF Falsy(apiKey) THEN "401"
    ELSE IF API_SECRET.t = "undef" THEN "throw"
    ELSE IF ~Includes(API_SECRET.s, apiKey.s) THEN "401"
    ELSE "next"

\* A request to a route under /n8n or /api arrives at apiKeyMiddleware. An error
\* thrown by the middleware is answered 500 by the error handler of express.
ApiRequest(route, apiKey) ==
    /\ spc = "idle"
    /\ sreq' = [NoServerRequest EXCEPT !.kind = "api", !.route = route, !.apiKey = apiKey]
    /\ LET verdict == apiKeyMiddleware(apiKey, processEnv.API_SECRET)
       IN  /\ responses' = IF verdict = "401" THEN <<401>>
                           ELSE IF verdict = "throw" THEN <<500>>
                           ELSE responses
           /\ spc' = IF verdict = "next" THEN "handler" ELSE "done"
    /\ UNCHANGED <<processEnv, handlerRan, visited, inFlight, forwards>>
    /\ UNCHANGED <<calendarVars, endpointVars, convertVars>>

\* The statuses with which a handler under the route answers.
HandlerStatuses(route) ==
    IF route = "/api" THEN {200} ELSE {200, 400, 401, 403, 404, 500}

\* next(): the handler of the route runs and answers.
RouteHandler(status) ==
    /\ spc = "handler"
    /\ status \in HandlerStatuses(sreq.route)
    /\ handlerRan' = TRUE
    /\ responses' = Append(responses, status)
    /\ spc' = "done"
    /\ UNCHANGED <<processEnv, sreq, visited, inFlight, forwards>>
    /\ UNCHANGED <<calendarVars, endpointVars, convertVars>>

\* Messages in the messages list of one change value.
MaxMessages == 2

\* Change values one POST /wa/webhook carries, over all its entries.
MaxChanges == 2

SignaturePrefix == <<"s", "h", "a", "2", "5", "6", "=">>

\* The raw bodies of the modelled requests.
RawBodies == {<<"a">>, <<"b", "b">>}

\* crypto.createHmac("sha256", appSecret).update(rawBody).digest("hex"): a string
\* of fixed length that the key and the body determine; here two digits,
\* different for the modelled bodies.
hmacHex(appSecret, rawBody) == TwoDigits((7 * Len(appSecret) + 13 * Len(rawBody)) % 100)

\* "sha256=" + the digest
expectedSignature(appSecret, rawBody) == SignaturePrefix \o hmacHex(appSecret, rawBody)

\* The X-Hub-Signature-256 headers sent with a body: none, empty, the digest
\* without "sha256=", the right signature, the signature of another body (same
\* length), "sha256=" alone (shorter), the right signature and one more
\* character (longer).
SigHeaders(rawBody) ==
    { JsUndef, JsStr(<<>>), JsStr(hmacHex(AppSecret, rawBody)),
      JsStr(expectedSignature(AppSecret, rawBody)),
      JsStr(expectedSignature(AppSecret, rawBody \o <<"c">>)),
      JsStr(SignaturePrefix),
      JsStr(expectedSignature(AppSecret, rawBody) \o <<"0">>) }

\* POST /wa/webhook requests with a JSON body; hasEntry: the body has an array
\* entry.
WebhookRequests ==
    { [NoServerRequest EXCEPT !.kind = "webhook", !.route = "/wa/webhook",
                              !.sigHeader = h, !.rawBody = b, !.hasEntry = e] :
        b \in RawBodies, h \in UNION {SigHeaders(body) : body \in RawBodies}, e \in BOOLEAN }

\* sigHeader.startsWith("sha256=")
startsWith(chars, prefix) ==
    Len(chars) >= Len(prefix) /\ SubSeq(chars, 1, Len(prefix)) = prefix

\* crypto.timingSafeEqual(Buffer.from(a), Buffer.from(b)): a RangeError when the
\* lengths differ.
timingSafeEqual(a, b) ==
    IF Len(a) # Len(b) THEN "throw" ELSE IF a = b THEN "true" ELSE "false"

\* verifyMetaSignature: "true", "false" or "throw".
verifyMetaSignature(r, appSecret) ==
    IF Falsy(appSecret) THEN "true"
    ELSE IF Falsy(r.sigHeader) \/ ~startsWith(r.sigHeader.s, SignaturePrefix) THEN "false"
    ELSE timingSafeEqual(r.sigHeader.s, expectedSignature(appSecret.s, r.rawBody))

\* What becomes of an error thrown in the async handler before any response:
\* express 4 leaves the rejection unhandled and no response is sent, express 5
\* hands it to its error handler, which answers 500.
UncaughtOutcomes == {<<>>, <<500>>}

\* from_me of a message: true, false, or not given.
FromMe == {"true", "false", "undef"}

MessageLists == UNION { [1..k -> FromMe] : k \in 0..MaxMessages }

\* The value of a change: none, or an object with or without statuses and with
\* or without a messages list.
Values ==
    {NoValue}
    \cup { [NoValue EXCEPT !.hasValue = TRUE, !.hasStatuses = s] : s \in BOOLEAN }
    \cup { [NoValue EXCEPT !.hasValue = TRUE, !.hasStatuses = s, !.hasMessages = TRUE,
                           !.messages = m] : s \in BOOLEAN, m \in MessageLists }

\* The tests of the loop body: a value is forwarded when it is there, is not
\* status-only, and its first message is there and is not from_me.
forwardable(value) ==
    /\ value.hasValue
    /\ ~(value.hasStatuses /\ ~value.hasMessages)
    /\ value.hasMessages
    /\ Len(value.messages) >= 1
    /\ value.messages[1] # "true"

\* A faulty variant: the response is not sent.
respondOkNever(sent) == sent

\* res.status(200).send("OK")
respondOk(sent) == Append(sent, 200)

\* POST /wa/webhook up to its first await: the signature check, the 401 or the
\* 200, and the test of entry.
WebhookPost(r, uncaught) ==
    /\ spc = "idle"
    /\ sreq' = r
    /\ LET verdict == verifyMetaSignature(r, processEnv.APP_SECRET)
       IN  /\ responses' = IF verdict = "false" THEN <<401>>
                           ELSE IF verdict = "throw" THEN uncaught
                           ELSE respondOk(responses)
           /\ spc' = IF verdict = "true" /\ r.hasEntry THEN "loop" ELSE "done"
    /\ UNCHANGED <<processEnv, handlerRan, visited, inFlight, forwards>>
    /\ UNCHANGED <<calendarVars, endpointVars, convertVars>>

\* The loops reach the next change: its value is dropped, or its forward to n8n
\* is started and awaited.
VisitChange(value) ==
    /\ spc = "loop"
    /\ visited < MaxChanges
    /\ visited' = visited + 1
    /\ IF forwardable(value)
       THEN /\ inFlight' = value
            /\ forwards' = Append(forwards, "started")
            /\ spc' = "fetching"
       ELSE UNCHANGED <<inFlight, forwards, spc>>
    /\ UNCHANGED <<processEnv, sreq, responses, handlerRan>>
    /\ UNCHANGED <<calendarVars, endpointVars, convertVars>>

\* await fetch(N8N_URL) settles: it resolves, or it rejects and the catch logs.
FetchSettles(ok) ==
    /\ spc = "fetching"
    /\ forwards' = [forwards EXCEPT ![Len(forwards)] = IF ok THEN "ok" ELSE "failed"]
    /\ inFlight' = NoValue
    /\ spc' = "loop"
    /\ UNCHANGED <<processEnv, sreq, responses, handlerRan, visited>>
    /\ UNCHANGED <<calendarVars, endpointVars, convertVars>>

\* The loops are over.
LoopEnds ==
    /\ spc = "loop"
    /\ spc' = "done"
    /\ UNCHANGED <<processEnv, sreq, responses, handlerRan, visited, inFlight, forwards>>
    /\ UNCHANGED <<calendarVars, endpointVars, convertVars>>

\* The request is over; nothing of it is kept.
ServerNextRequest ==
    /\ spc = "done"
    /\ spc' = "idle"
    /\ sreq' = NoServerRequest
    /\ responses' = <<>>
    /\ handlerRan' = FALSE
    /\ visited' = 0
    /\ inFlight' = NoValue
    /\ forwards' = <<>>
    /\ detail' = NoDetail
    /\ UNCHANGED processEnv
    /\ UNCHANGED <<calendarVars, convertVars>>

ModeSubscribe == <<"s", "u", "b", "s", "c", "r", "i", "b", "e">>

\* The queries of GET /wa/webhook: hub.mode none, subscribe or another word;
\* hub.verify_token none, empty, the token or another word; hub.challenge none
\* or a number.
VerifyQueries ==
    { [NoQuery EXCEPT !.mode = m, !.verify_token = t, !.challenge = c] :
        m \in {JsUndef, JsStr(ModeSubscribe), JsStr(<<"x">>)},
        t \in {JsUndef, JsStr(<<>>), JsStr(VerifyToken), JsStr(<<"n", "o">>)},
        c \in {JsUndef, JsStr(<<"1", "2", "3">>)} }

\* mode === "subscribe" && verifyToken === process.env.VERIFY_TOKEN
verifyAccepted(q, VERIFY_TOKEN) ==
    q.mode = JsStr(ModeSubscribe) /\ q.verify_token = VERIFY_TOKEN

\* GET /wa/webhook: 200 with the challenge, or 403.
WebhookVerify(q) ==
    /\ spc = "idle"
    /\ sreq' = [NoServerRequest EXCEPT !.kind = "verify", !.route = "/wa/webhook",
                                       !.query = q]
    /\ IF verifyAccepted(q, processEnv.VERIFY_TOKEN)
       THEN /\ responses' = <<200>>
            /\ detail' = [detail EXCEPT !.sent = q.challenge]
       ELSE /\ responses' = <<403>>
            /\ UNCHANGED detail
    /\ spc' = "done"
    /\ UNCHANGED <<processEnv, handlerRan, visited, inFlight, forwards>>
    /\ UNCHANGED <<calendarVars, convertVars>>

\* Addresses in attendees and in monitoring_emails of one request.
MaxRecipients == 2

EmailMonitor == <<"m", "@", "n", ".", "o">>

SeqsUpTo(S, n) == UNION { [1..k -> S] : k \in 0..n }

\* The bodies of POST /send_event_email: every required field other than
\* attendees is given and valid; attendees and monitoring_emails are lists of
\* valid and invalid addresses, monitoring_emails may be missing.
EmailBodies ==
    { [NoEmailBody EXCEPT !.attendees = a] : a \in SeqsUpTo({EmailValid, EmailNoAt}, MaxRecipients) }
    \cup { [NoEmailBody EXCEPT !.attendees = a, !.hasMonitoring = TRUE,
                               !.monitoring_emails = m] :
             a \in SeqsUpTo({EmailValid, EmailNoAt}, MaxRecipients),
             m \in SeqsUpTo({EmailMonitor, EmailNoAt}, MaxRecipients) }

\* The validation of the recipients: 0 when they pass, else the status sent.
emailRecipientsStatus(b) ==
    IF b.attendees = <<>> THEN 400
    ELSE IF \E i \in 1..Len(b.attendees) : ~emailRegexTest(b.attendees[i]) THEN 400
    ELSE IF \E i \in 1..Len(b.monitoring_emails) : ~emailRegexTest(b.monitoring_emails[i])
    THEN 400
    ELSE 0

\* EmailService.sendEventEmail(eventData, attendees, impersonateEmail): the
\* headers of the message it builds. It has three parameters; the fourth
\* argument of the handler, monitoring_emails, is not received.
emailHeaders(attendees, monitoring_emails) == [to |-> attendees, bcc |-> <<>>]

\* POST /send_event_email up to its await: the validation, and the message
\* handed to gmail.users.messages.send.
SendEventEmail(b) ==
    /\ spc = "idle"
    /\ creds = "ok"
    /\ sreq' = [NoServerRequest EXCEPT !.kind = "email", !.route = "/n8n", !.email = b]
    /\ LET status == emailRecipientsStatus(b)
           headers == emailHeaders(b.attendees, b.monitoring_emails)
       IN  IF status > 0
           THEN /\ responses' = <<status>>
                /\ spc' = "done"
                /\ UNCHANGED detail
           ELSE /\ detail' = [detail EXCEPT !.to = headers.to, !.bcc = headers.bcc]
                /\ spc' = "sending"
                /\ UNCHANGED responses
    /\ UNCHANGED <<processEnv, handlerRan, visited, inFlight, forwards>>
    /\ UNCHANGED <<calendarVars, convertVars>>

\* What gmail.users.messages.send does: it answers, or fails with a code.
GmailAnswers == {"ok", "403", "400", "other"}

\* The send settles. On success sendEventEmail returns messageId, threadId,
\* sentTo and sentCount, and the handler reports them together with
\* emailResult.monitoringEmails and emailResult.totalEmailsSent, which the
\* result does not have. On failure the handler answers by the error message.
GmailSendSettles(answer) ==
    /\ spc = "sending"
    /\ IF answer = "ok"
       THEN /\ responses' = <<200>>
            /\ detail' = [detail EXCEPT !.sent_to = sreq.email.attendees,
                                        !.sent_count = JsInt(Len(sreq.email.attendees))]
       ELSE /\ responses' = <<IF answer = "403" THEN 403
                              ELSE IF answer = "400" THEN 400 ELSE 500>>
            /\ UNCHANGED detail
    /\ spc' = "done"
    /\ UNCHANGED <<processEnv, sreq, handlerRan, visited, inFlight, forwards>>
    /\ UNCHANGED <<calendarVars, convertVars>>

\* The bodies of POST /book_calendar_event: with or without event_title, the
\* start at 10:00 and the end at 09:00, 10:00 or 11:00 of the same day.
BookBodies ==
    [hasTitle : BOOLEAN, start_time : {10}, end_time : {9, 10, 11}]

\* The validation of the body: 0 when it passes, else the status sent.
bookBodyStatus(b) ==
    IF ~b.hasTitle THEN 400
    ELSE IF b.start_time >= b.end_time THEN 400
    ELSE 0

\* POST /book_calendar_event up to the await of events.insert.
BookCalendarEvent(b) ==
    /\ spc = "idle"
    /\ creds = "ok"
    /\ sreq' = [NoServerRequest EXCEPT !.kind = "book", !.route = "/n8n", !.book = b]
    /\ IF bookBodyStatus(b) > 0
       THEN /\ responses' = <<bookBodyStatus(b)>>
            /\ spc' = "done"
       ELSE /\ spc' = "booking"
            /\ UNCHANGED responses
    /\ UNCHANGED <<processEnv, handlerRan, visited, inFlight, forwards, detail>>
    /\ UNCHANGED <<calendarVars, convertVars>>

\* What calendar.events.insert does: it answers, or fails with an error that
\* has a code (0: none) and a message.
InsertAnswers ==
    LET MsgUpstreamNotFound ==
            <<"N", "o", "t", " ", "F", "o", "u", "n", "d">>
        MsgUpstreamForbidden ==
            <<"F", "o", "r", "b", "i", "d", "d", "e", "n">>
        MsgUpstreamConflict ==
            <<"C", "o", "n", "f", "l", "i", "c", "t">>
        MsgUpstreamBackend ==
            <<"B", "a", "c", "k", "e", "n", "d", " ", "E", "r", "r", "o", "r">>
        MsgUpstreamUnauthorized ==
            <<"C", "l", "i", "e", "n", "t", " ", "i", "s", " ", "u", "n", "a", "u", "t", "h", "o", "r", "i", "z", "e", "d", " ", "t", "o", " ", "r", "e", "t", "r", "i", "e", "v", "e", " ", "a", "c", "c", "e", "s", "s", " ", "t", "o", "k", "e", "n", "s">>
    IN
    { NoUpstreamError }
    \cup { [failed |-> TRUE, code |-> c, message |-> m] :
             c \in {404}, m \in {MsgUpstreamNotFound} }
    \cup { [failed |-> TRUE, code |-> c, message |-> m] :
             c \in {403}, m \in {MsgUpstreamForbidden} }
    \cup { [failed |-> TRUE, code |-> c, message |-> m] :
             c \in {409}, m \in {MsgUpstreamConflict} }
    \cup { [failed |-> TRUE, code |-> c, message |-> m] :
             c \in {0, 400, 500},
             m \in {<<>>, MsgUpstreamBackend, MsgUpstreamUnauthorized} }

\* The catch of bookCalendarEvent: the message of the error it throws.
bookingErrorMessage(error) ==
    LET MsgBookAccessDenied ==
            <<"A", "c", "c", "e", "s", "s", " ", "d", "e", "n", "i", "e", "d", " ", "(", "c", "h", "e", "c", "k", " ", "D", "W", "D", " ", "s", "c", "o", "p", "e", "s", " ", "+", " ", "s", "u", "b", "j", "e", "c", "t", " ", "u", "s", "e", "r", ")">>
        MsgBookNotFound ==
            <<"C", "a", "l", "e", "n", "d", "a", "r", " ", "n", "o", "t", " ", "f", "o", "u", "n", "d">>
        MsgBookConflict ==
            <<"T", "i", "m", "e", " ", "c", "o", "n", "f", "l", "i", "c", "t">>
        MsgBookFailed ==
            <<"F", "a", "i", "l", "e", "d", " ", "t", "o", " ", "b", "o", "o", "k", " ", "e", "v", "e", "n", "t">>
    IN
    IF error.code = 403 THEN MsgBookAccessDenied
    ELSE IF error.code = 404 THEN MsgBookNotFound
    ELSE IF error.code = 409 THEN MsgBookConflict
    ELSE IF error.message # <<>> THEN error.message
    ELSE MsgBookFailed

\* The catch (bookingError) of the handler: the status by the error message.
bookingErrorStatus(message) ==
    LET PatForbiddenLower == <<"f", "o", "r", "b", "i", "d", "d", "e", "n">>
        PatConflict == <<"c", "o", "n", "f", "l", "i", "c", "t">>
        PatBusy == <<"b", "u", "s", "y">>
    IN
    IF Includes(message, PatNotFoundLower) THEN 404
    ELSE IF Includes(message, PatForbiddenLower) \/ Includes(message, PatAccess) THEN 403
    ELSE IF Includes(message, PatConflict) \/ Includes(message, PatBusy) THEN 409
    ELSE 400

\* events.insert settles and the handler answers.
InsertSettles(answer) ==
    /\ spc = "booking"
    /\ detail' = [detail EXCEPT !.upstream = answer]
    /\ responses' = <<IF answer.failed
                      THEN bookingErrorStatus(bookingErrorMessage(answer))
                      ELSE 200>>
    /\ spc' = "done"
    /\ UNCHANGED <<processEnv, sreq, handlerRan, visited, inFlight, forwards>>
    /\ UNCHANGED <<calendarVars, convertVars>>

\* Number.parseInt(string, 10): leading blanks are skipped, then an optional
\* sign and the longest run of decimal digits; NaN when there is no digit.
NumberParseInt(chars) ==
    LET RECURSIVE SkipBlanks(_)
        SkipBlanks(i) == IF i <= Len(chars) /\ chars[i] = " " THEN SkipBlanks(i + 1) ELSE i
        RECURSIVE LeadingDigits(_)
        LeadingDigits(i) ==
            IF i <= Len(chars) /\ IsDigit(chars[i])
            THEN <<chars[i]>> \o LeadingDigits(i + 1)
            ELSE <<>>
        first == SkipBlanks(1)
        signed == first <= Len(chars) /\ chars[first] \in {"-", "+"}
        digits == LeadingDigits(IF signed THEN first + 1 ELSE first)
    IN  IF digits = <<>> THEN JsNaN
        ELSE IF signed /\ chars[first] = "-" THEN JsInt(-DecimalValue(digits))
        ELSE JsInt(DecimalValue(digits))

\* Math.min(Number.parseInt(req.query.limit ?? "50", 10) || 50, 200)
chatsLimit(limit) ==
    LET parsed == NumberParseInt(IF limit.t = "undef" THEN <<"5", "0">> ELSE limit.s)
    IN  MathMin(IF Falsy(parsed) THEN JsInt(50) ELSE parsed, JsInt(200))

\* The queries of GET /chats-data: limit absent, a word, empty, zero, negative,
\* in range, at the cap, above the cap, with a fraction, with a suffix.
LimitQueries ==
    { [NoQuery EXCEPT !.limit = l] :
        l \in { JsUndef,
                JsStr(<<"a", "b", "c">>),
                JsStr(<<>>),
                JsStr(<<"0">>),
                JsStr(<<"-", "5">>),
                JsStr(<<"7">>),
                JsStr(<<"2", "0", "0">>),
                JsStr(<<"5", "0", "0">>),
                JsStr(<<"1", "2", ".", "7">>),
                JsStr(<<"1", "2", "a", "b">>) } }

\* GET /chats-data up to the await of pool.query: the limit handed to the
\* database.
ChatsData(q) ==
    /\ spc = "idle"
    /\ sreq' = [NoServerRequest EXCEPT !.kind = "chats", !.route = "/chats-data",
                                       !.query = q]
    /\ detail' = [detail EXCEPT !.dbLimit = chatsLimit(q.limit)]
    /\ spc' = "querying"
    /\ UNCHANGED <<processEnv, responses, handlerRan, visited, inFlight, forwards>>
    /\ UNCHANGED <<calendarVars, convertVars>>

\* pool.query settles: the rows are answered, or the failure is answered 500.
DbQuerySettles(ok) ==
    /\ spc = "querying"
    /\ responses' = <<IF ok THEN 200 ELSE 500>>
    /\ spc' = "done"
    /\ UNCHANGED <<processEnv, sreq, handlerRan, visited, inFlight, forwards, detail>>
    /\ UNCHANGED <<calendarVars, convertVars>>

ServerInit ==
    /\ creds = "ok"
    /\ pc = "idle"
    /\ caller = "none"
    /\ req = NoRequest
    /\ args = NoArgs
    /\ now = 0
    /\ window = NoWindow
    /\ queries = 0
    /\ reply = NoAnswer
    /\ result = NoResult
    /\ hourlySlots = <<>>
    /\ intervals = <<>>
    /\ outcome = NoOutcome
    /\ http = NoHttp
    /\ processEnv \in Environments
    /\ ServerIdle
    /\ ConvertIdle

ServerNext ==
    \/ \E route \in GuardedRoutes : \E apiKey \in ApiKeys : ApiRequest(route, apiKey)
    \/ \E status \in HandlerStatuses("/n8n") : RouteHandler(status)
    \/ \E r \in WebhookRequests : \E uncaught \in UncaughtOutcomes : WebhookPost(r, uncaught)
    \/ \E value \in Values : VisitChange(value)
    \/ \E ok \in BOOLEAN : FetchSettles(ok)
    \/ LoopEnds
    \/ \E q \in VerifyQueries : WebhookVerify(q)
    \/ \E b \in EmailBodies : SendEventEmail(b)
    \/ \E answer \in GmailAnswers : GmailSendSettles(answer)
    \/ \E b \in BookBodies : BookCalendarEvent(b)
    \/ \E answer \in InsertAnswers : InsertSettles(answer)
    \/ \E q \in LimitQueries : ChatsData(q)
    \/ \E ok \in BOOLEAN : DbQuerySettles(ok)
    \/ ServerNextRequest

ServerSpec == ServerInit /\ [][ServerNext]_vars

\* C17: with an API secret configured, a request under /n8n or /api reaches
\* the handler only if its x-api-key is exactly the secret; a request with no
\* key or with any other key, a proper substring of the secret included, is
\* answered 401 and the handler does not run.
C17_HandlerOnlyWithExactKey ==
    ( /\ sreq.kind = "api"
      /\ spc \in {"handler", "done"}
      /\ processEnv.API_SECRET.t = "str"
      /\ sreq.apiKey # processEnv.API_SECRET ) =>
          /\ spc = "done"
          /\ ~handlerRan
          /\ responses = <<401>>

\* The request being handled is a POST /wa/webhook past its signature check.
WebhookChecked == sreq.kind = "webhook" /\ spc # "idle"

\* C18: with APP_SECRET set, a POST /wa/webhook whose X-Hub-Signature-256 is
\* missing, does not start with "sha256=", or differs from the signature of the
\* raw body, whatever its length, is answered 401 and nothing is forwarded to
\* n8n; with APP_SECRET not set the request is accepted.
C18_BadSignatureIsRejected ==
    WebhookChecked =>
        IF processEnv.APP_SECRET.t = "str"
        THEN sreq.sigHeader # JsStr(expectedSignature(processEnv.APP_SECRET.s, sreq.rawBody)) =>
                /\ spc = "done"
                /\ responses = <<401>>
                /\ forwards = <<>>
        ELSE responses = <<200>>

\* The value carries real inbound user messages: it is not status-only, it has
\* at least one message, and none of its messages is from_me.
CarriesInboundMessages(value) ==
    /\ value.hasValue
    /\ value.hasMessages
    /\ Len(value.messages) >= 1
    /\ \A k \in 1..Len(value.messages) : value.messages[k] # "true"

\* C19: a change value is forwarded to n8n only if it carries real inbound user
\* messages: a status-only value is never forwarded, and no forwarded value has a
\* message with from_me = true, however many messages it has.
C19_OnlyInboundMessagesForwarded ==
    spc = "fetching" => CarriesInboundMessages(inFlight)

\* The POST /wa/webhook being handled passed the signature check.
WebhookAccepted ==
    WebhookChecked /\ verifyMetaSignature(sreq, processEnv.APP_SECRET) = "true"

\* C20: for an accepted POST /wa/webhook the 200 is sent before any forward to
\* n8n is started, exactly one response is sent, and it does not depend on the
\* forwards: from the signature check on, whatever forwards were started and
\* however they ended, the responses sent are the one 200; and no forward is
\* ever started for a request that was not answered 200.
C20_RespondsOnceBeforeForwarding ==
    /\ WebhookAccepted => responses = <<200>>
    /\ forwards # <<>> => WebhookAccepted /\ responses = <<200>>

\* The handler has ended after one forward that failed and one that succeeded.
C20_Witness ==
    /\ WebhookAccepted
    /\ spc = "done"
    /\ forwards = <<"failed", "ok">>
    /\ responses = <<200>>

\* C21: GET /wa/webhook answers 200 with the hub.challenge only if hub.mode is
\* subscribe and hub.verify_token is the configured VERIFY_TOKEN, and 403 in
\* every other case: also when the request has no hub.verify_token, and whether
\* VERIFY_TOKEN is set, empty or not set.
C21_VerifyOnlyWithConfiguredToken ==
    (sreq.kind = "verify" /\ spc = "done") =>
        IF /\ sreq.query.mode = JsStr(ModeSubscribe)
           /\ sreq.query.verify_token.t = "str"
           /\ sreq.query.verify_token = processEnv.VERIFY_TOKEN
           /\ ~Falsy(processEnv.VERIFY_TOKEN)
        THEN responses = <<200>> /\ detail.sent = sreq.query.challenge
        ELSE responses = <<403>>

\* C22: a POST /send_event_email with a non-empty valid monitoring_emails list
\* hands Gmail a message that carries every monitoring address as a BCC
\* recipient and none in To, and its 200 response reports monitoring_emails
\* equal to the list and total_emails_sent equal to the number of attendees plus
\* the number of monitoring addresses.
C22_MonitoringEmailsAreBcc ==
    ( /\ sreq.kind = "email"
      /\ sreq.email.monitoring_emails # <<>>
      /\ emailRecipientsStatus(sreq.email) = 0
      /\ spc \in {"sending", "done"} ) =>
        /\ Range(sreq.email.monitoring_emails) \subseteq Range(detail.bcc)
        /\ Range(sreq.email.monitoring_emails) \cap Range(detail.to) = {}
        /\ (spc = "done" /\ responses = <<200>>) =>
              /\ detail.hasMonitoringEmails
              /\ detail.monitoring_emails = sreq.email.monitoring_emails
              /\ detail.total_emails_sent
                   = JsInt(Len(sreq.email.attendees) + Len(sreq.email.monitoring_emails))

\* The slots that lie inside the interval, in their order.
SlotsInside(interval) == SelectSeq(hourlySlots, LAMBDA slot : Contains(interval, slot))

\* C23: groupSlotsIntoIntervals preserves coverage: every merged interval is the
\* concatenation of one maximal run of consecutive slots (its slots tile it, no
\* slot ends where it starts and none starts where it ends), every slot lies in
\* exactly one merged interval, so the merged intervals cover what the slots
\* cover, the output is in chronological order, and the empty list gives the
\* empty list.
C23_MergingPreservesCoverage ==
    /\ groupSlotsIntoIntervals(<<>>) = <<>>
    /\ Computed =>
         /\ intervals = groupSlotsIntoIntervals(hourlySlots)
         /\ \A i \in 1..Len(intervals) :
              /\ Tiles(SlotsInside(intervals[i]), intervals[i].start, intervals[i].end)
              /\ \A k \in 1..Len(hourlySlots) :
                   /\ hourlySlots[k].end # intervals[i].start
                   /\ hourlySlots[k].start # intervals[i].end
         /\ \A k \in 1..Len(hourlySlots) :
              Cardinality({i \in 1..Len(intervals) : Contains(intervals[i], hourlySlots[k])}) = 1
         /\ \A i \in 1..(Len(intervals) - 1) : intervals[i].end < intervals[i + 1].start

\* Three merged intervals, one of them a single slot and one of several slots.
C23_Witness ==
    /\ Computed
    /\ Len(intervals) >= 3
    /\ \E i \in 1..Len(intervals) : Len(SlotsInside(intervals[i])) = 1
    /\ \E i \in 1..Len(intervals) : Len(SlotsInside(intervals[i])) >= 3

\* The cursor of generateHourlySlots after the alignment, for the i-th free
\* interval.
AlignedCursor(i) == alignToHour(result.free[i].start, Zone)

\* The free intervals have been fetched and the zone is one Intl knows.
Aligning == Fetched /\ IsValidTimeZone(Zone)

\* C24 as stated: after the alignment the cursor is between the start and the
\* end of the free interval being processed, for every free interval.
C24_CursorStaysInsideInterval ==
    Aligning =>
        \A i \in 1..Len(result.free) :
            /\ result.free[i].start <= AlignedCursor(i)
            /\ AlignedCursor(i) <= result.free[i].end

\* C24: the alignment only moves the cursor forward, by less than one hour, to
\* an instant whose local minute is 0; it is not bounded by the end of the free
\* interval, and when it moves the cursor past that end the interval gives no
\* slot.
C24_CursorMovesForwardLessThanAnHour ==
    Aligning =>
        \A i \in 1..Len(result.free) :
            /\ result.free[i].start <= AlignedCursor(i)
            /\ AlignedCursor(i) < result.free[i].start + HOUR
            /\ getZonedParts(AlignedCursor(i), Zone).minute = 0
            /\ (AlignedCursor(i) > result.free[i].end =>
                  slotsOfInterval(result.free[i], Zone, args.work_start_hour,
                                  args.work_end_hour) = <<>>)

\* A free interval that ends before the next top of the hour: the cursor is
\* moved past its end.
C24_Witness ==
    /\ Aligning
    /\ \E i \in 1..Len(result.free) : AlignedCursor(i) > result.free[i].end

\* C25: the free intervals being in chronological order and disjoint, the slots
\* of generateHourlySlots have strictly increasing starts and do not overlap;
\* inside one free interval every slot starts a whole number of slot lengths
\* after the aligned cursor, and there are no more slots than slot lengths fit
\* into the interval, so the list is finite.
C25_SlotsIncreaseWithoutOverlap ==
    (Computed /\ Aligning) =>
        /\ \A i \in 1..(Len(result.free) - 1) : result.free[i].end <= result.free[i + 1].start
        /\ \A k \in 1..(Len(hourlySlots) - 1) :
             /\ hourlySlots[k].start < hourlySlots[k + 1].start
             /\ hourlySlots[k].end <= hourlySlots[k + 1].start
        /\ \A i \in 1..Len(result.free) :
             LET mine == slotsOfInterval(result.free[i], Zone, args.work_start_hour,
                                         args.work_end_hour)
             IN  /\ \A k \in 1..Len(mine) :
                      /\ mine[k].start >= AlignedCursor(i)
                      /\ (mine[k].start - AlignedCursor(i)) % (mine[k].end - mine[k].start) = 0
                 /\ Len(mine) * HOUR <= result.free[i].end - result.free[i].start

\* Slots of two free intervals, with skipped hours between slots of one of them.
C25_Witness ==
    /\ Computed
    /\ Len(result.free) >= 2
    /\ \E k \in 1..(Len(hourlySlots) - 1) : hourlySlots[k].end = result.free[1].end
    /\ \E k \in 1..(Len(hourlySlots) - 1) :
         /\ hourlySlots[k + 1].start - hourlySlots[k].end >= 10 * HOUR
         /\ \E i \in 1..Len(result.free) :
              Contains(result.free[i], hourlySlots[k]) /\ Contains(result.free[i], hourlySlots[k + 1])

\* C26: an invocation of formattedCalendarAvailability that has ended issued
\* exactly one free/busy query, whether the query failed or not; what it
\* computed comes from the answer to that query; and between requests nothing
\* of a query is kept.
C26_ExactlyOneQueryPerInvocation ==
    /\ pc = "returned" =>
         /\ queries = 1
         /\ result = checkCalendarAvailability(window.timeMin, window.timeMax,
                                               args.google_calendar_email, reply)
    /\ pc \in {"core", "awaiting"} => result = NoResult
    /\ pc = "idle" => queries = 0 /\ reply = NoAnswer /\ result = NoResult

\* The status the claim gives to an error kind of the fetcher.
StatusOfKind(kind) ==
    IF kind = "NotFound" THEN 404
    ELSE IF kind = "Forbidden" THEN 403
    ELSE 400

\* The handler has answered a request whose errors list the fetcher turned into
\* an error.
ErrorsAnswered ==
    /\ pc = "responded"
    /\ reply.kind = "entry"
    /\ reply.hasErrors
    /\ result.error.t = "str"

\* C27: the status of a failed POST /get_calendar_availability is given by the
\* error kind of the fetcher alone (not found 404, forbidden 403, invalid
\* calendar ID and any other upstream failure 400), and it is the same for a
\* calendar email that holds a word the handler searches the message for.
C27_StatusByErrorKindAlone ==
    ErrorsAnswered =>
        LET kind == KindOfMessage(result.error.s, args.google_calendar_email)
            other == <<"a", "c", "c", "e", "s", "s", "@", "b", ".", "c">>
        IN  /\ http.status = StatusOfKind(kind)
            /\ calendarErrorResponse(accessErrorMessage(reply.errors, other)).status
                 = StatusOfKind(kind)

\* C28: a failed booking is answered by the upstream status: events.insert
\* failing with code 404 gives 404, with code 403 gives 403, with code 409 gives
\* 409, and any other failure gives 400.
C28_BookingStatusByUpstreamCode ==
    (sreq.kind = "book" /\ spc = "done" /\ detail.upstream.failed) =>
        responses = << IF detail.upstream.code \in {404, 403, 409}
                       THEN detail.upstream.code
                       ELSE 400 >>

----------------------------------------------------------------------------
(* POST /convert-audio: two requests in flight.                            *)

\* upload.single("file") and the handler up to .save(outputPath): multer writes
\* the upload to uploads/<originalname>, over a file of that name; the handler
\* answers 400 without a file or for an unsupported format, else it takes the
\* two paths and starts ffmpeg.
ConvertAudio(i, hasFile, name, format) ==
    /\ conv[i].pc = "none"
    /\ uploadFiles' = IF hasFile THEN [uploadFiles EXCEPT ![name] = i] ELSE uploadFiles
    /\ LET outputFormat == IF format = "" THEN "mp3" ELSE format
       IN  IF ~hasFile \/ outputFormat \notin supportedFormats
           THEN conv' = [conv EXCEPT ![i] = [NoConv EXCEPT !.pc = "done", !.status = 400]]
           ELSE conv' = [conv EXCEPT ![i] =
                           [NoConv EXCEPT !.pc = "started",
                                          !.inputPath = name,
                                          !.outputPath = OutputPath(clock, outputFormat)]]
    /\ UNCHANGED <<convertedFiles, clock>>
    /\ UNCHANGED <<calendarVars, serverVars, endpointVars>>

\* ffmpeg reads the file at inputPath (as one step): what the file holds then,
\* nothing when it is gone.
FfmpegReads(i) ==
    /\ conv[i].pc = "started"
    /\ conv' = [conv EXCEPT ![i].pc = "converting",
                            ![i].read = uploadFiles[conv[i].inputPath]]
    /\ UNCHANGED <<uploadFiles, convertedFiles, clock>>
    /\ UNCHANGED <<calendarVars, serverVars, endpointVars>>

\* ffmpeg ends. on("end"): the output file is written and its stream is piped
\* to the response. on("error") (always when there was no input to read): the
\* input file is removed and the response is 500.
FfmpegEnds(i, ok) ==
    /\ conv[i].pc = "converting"
    /\ IF ok /\ conv[i].read # 0
       THEN /\ convertedFiles' = [convertedFiles EXCEPT ![conv[i].outputPath] = conv[i].read]
            /\ conv' = [conv EXCEPT ![i].pc = "streaming"]
            /\ UNCHANGED uploadFiles
       ELSE /\ uploadFiles' = [uploadFiles EXCEPT ![conv[i].inputPath] = 0]
            /\ conv' = [conv EXCEPT ![i].pc = "done", ![i].status = 500]
            /\ UNCHANGED convertedFiles
    /\ UNCHANGED clock
    /\ UNCHANGED <<calendarVars, serverVars, endpointVars>>

\* The stream of the output file ends (the file is read as one step): the
\* response has carried what the file at outputPath holds, then unlinkSync of
\* inputPath and of outputPath inside one try, so that the second is skipped
\* when the first throws. With no file at outputPath the stream fails and no
\* response is completed.
StreamEnds(i) ==
    /\ conv[i].pc = "streaming"
    /\ IF convertedFiles[conv[i].outputPath] = 0
       THEN /\ conv' = [conv EXCEPT ![i].pc = "done"]
            /\ UNCHANGED <<uploadFiles, convertedFiles>>
       ELSE /\ conv' = [conv EXCEPT ![i].pc = "done", ![i].status = 200,
                                    ![i].streamed = convertedFiles[conv[i].outputPath]]
            /\ IF uploadFiles[conv[i].inputPath] = 0
               THEN UNCHANGED <<uploadFiles, convertedFiles>>
               ELSE /\ uploadFiles' = [uploadFiles EXCEPT ![conv[i].inputPath] = 0]
                    /\ convertedFiles' = [convertedFiles EXCEPT ![conv[i].outputPath] = 0]
    /\ UNCHANGED clock
    /\ UNCHANGED <<calendarVars, serverVars, endpointVars>>

\* A millisecond passes.
ConvertTick ==
    /\ clock < MaxClock
    /\ clock' = clock + 1
    /\ UNCHANGED <<uploadFiles, convertedFiles, conv>>
    /\ UNCHANGED <<calendarVars, serverVars, endpointVars>>

ConvertInit == Init /\ creds = "ok"

ConvertNext ==
    \/ \E i \in ConvRequests : \E hasFile \in BOOLEAN : \E name \in FileNames :
         \E format \in FormatChoices : ConvertAudio(i, hasFile, name, format)
    \/ \E i \in ConvRequests : FfmpegReads(i)
    \/ \E i \in ConvRequests : \E ok \in BOOLEAN : FfmpegEnds(i, ok)
    \/ \E i \in ConvRequests : StreamEnds(i)
    \/ ConvertTick

ConvertSpec == ConvertInit /\ [][ConvertNext]_vars

\* The request has its paths and has not ended.
ConvInFlight(i) == conv[i].pc \in {"started", "converting", "streaming"}

\* C29: two POST /convert-audio requests in flight together never have the same
\* upload path or the same output path; so a request whose upload has not been
\* read yet finds its own upload at its path (not overwritten, not removed by
\* the other's cleanup), and a request answered 200 has streamed the conversion
\* of its own upload.
C29_ConcurrentConversionsUseOwnFiles ==
    \A i \in ConvRequests :
        /\ \A j \in ConvRequests \ {i} :
             (ConvInFlight(i) /\ ConvInFlight(j)) =>
                 /\ conv[i].inputPath # conv[j].inputPath
                 /\ conv[i].outputPath # conv[j].outputPath
        /\ conv[i].pc = "started" => uploadFiles[conv[i].inputPath] = i
        /\ conv[i].status = 200 => conv[i].streamed = i

\* C30: whatever the limit parameter of GET /chats-data is (absent, not a
\* number, zero, negative, above 200), the limit handed to the database query is
\* an integer in 1..200, and it is 50 when the parameter is absent or does not
\* start with a number.
C30_LimitIsClamped ==
    (sreq.kind = "chats" /\ spc \in {"querying", "done"}) =>
        /\ IsWholeIn(detail.dbLimit, 1, 200)
        /\ NumberParseInt(ToChars(sreq.query.limit)).t = "nan" => detail.dbLimit = JsInt(50)

====
